---- MODULE Spec2Model ----
(***************************************************************************)
(* Broken-Link-Finder: the crawl driven by src/main.js, the per-page link  *)
(* extraction of src/page-handler.js and the result resolution and link    *)
(* classification of src/tools.js.                                         *)
(***************************************************************************)
EXTENDS Integers, Sequences, FiniteSets, TLC

VARIABLES
    site,                  \* the web site being crawled (base URL and pages)
    input,                 \* Actor input (main.js:25-35)
    requestQueue,          \* every request admitted to the queue, in FIFO order
    queueHead,             \* number of requests already handed to a worker
    handledRequestsCount,  \* requests finished (handled or terminally failed)
    workers,               \* per-worker position inside requestHandler
    records,               \* main.js:63, the record store
    phase,                 \* "crawl" -> "resolved" -> "saved" -> "done"
    results,               \* main.js:163, value returned by getResults
    brokenLinks,           \* main.js:166, value returned by getBrokenLinks
    dataset,               \* rows pushed by Actor.pushData in getResults
    addLog,                \* history of requestQueue.addRequest calls
    output,                \* the OUTPUT summary written by saveResults
    notifications,         \* the e-mails sent by sendEmailNotification
    reclaimed,             \* failed requests given back to the queue for a retry
    probe                  \* argument and result of the function under a probe

vars == <<site, input, requestQueue, queueHead, handledRequestsCount, workers,
          records, phase, results, brokenLinks, dataset, addLog, output, notifications,
          reclaimed, probe>>

crawlVars == <<site, input, requestQueue, queueHead, handledRequestsCount,
               workers, records, phase, results, brokenLinks, dataset, addLog,
               output, notifications, reclaimed>>

(***************************************************************************)
(* Bounds of the model.                                                    *)
(***************************************************************************)
MaxStatus == 600
MaxDepthBound == 3
MaxPagesBound == 5
MaxWorkers == 2

(***************************************************************************)
(* Optional values: JavaScript null / undefined versus a present value.    *)
(***************************************************************************)
Some(x) == [present |-> TRUE, v |-> x]
NullStatus == [present |-> FALSE, v |-> 0]
NullMessage == [present |-> FALSE, v |-> <<>>]

(***************************************************************************)
(* Strings that the code inspects are sequences of characters.             *)
(***************************************************************************)
UpperChars ==
    <<"A", "B", "C", "D", "E", "F", "G", "H", "I", "J", "K", "L", "M", "N", "O", "P", "Q", "R", "S", "T", "U", "V", "W", "X", "Y", "Z">>
LowerChars ==
    <<"a", "b", "c", "d", "e", "f", "g", "h", "i", "j", "k", "l", "m", "n", "o", "p", "q", "r", "s", "t", "u", "v", "w", "x", "y", "z">>

\* String.prototype.toLowerCase
toLowerCase(s) ==
    [i \in 1..Len(s) |->
        IF \E k \in 1..Len(UpperChars) : UpperChars[k] = s[i]
        THEN LowerChars[CHOOSE k \in 1..Len(UpperChars) : UpperChars[k] = s[i]]
        ELSE s[i]]

\* String.prototype.includes
includes(s, t) ==
    \E i \in 1..(Len(s) - Len(t) + 1) : SubSeq(s, i, i + Len(t) - 1) = t

StrTimeout == <<"t", "i", "m", "e", "o", "u", "t">>
StrENOTFOUND == <<"E", "N", "O", "T", "F", "O", "U", "N", "D">>
StrECONNREFUSED == <<"E", "C", "O", "N", "N", "R", "E", "F", "U", "S", "E", "D">>
StrECONNRESET == <<"E", "C", "O", "N", "N", "R", "E", "S", "E", "T">>

\* "Error: Navigation timed out"
MsgNavTimedOut ==
    Some(<<"E", "r", "r", "o", "r", ":", " ", "N", "a", "v", "i", "g", "a", "t", "i", "o", "n", " ", "t", "i", "m", "e", "d", " ", "o", "u", "t">>)
\* "Timeout awaiting 'request' for 20000ms"
MsgGotTimeout ==
    Some(<<"T", "i", "m", "e", "o", "u", "t", " ", "a", "w", "a", "i", "t", "i", "n", "g", " ", "'", "r", "e", "q", "u", "e", "s", "t", "'", " ", "f", "o", "r", " ", "2", "0", "0", "0", "0", "m", "s">>)
\* "getaddrinfo ENOTFOUND x.invalid"
MsgEnotfound ==
    Some(<<"g", "e", "t", "a", "d", "d", "r", "i", "n", "f", "o", " ", "E", "N", "O", "T", "F", "O", "U", "N", "D", " ", "x", ".", "i", "n", "v", "a", "l", "i", "d">>)
\* "connect ECONNREFUSED"
MsgEconnrefused ==
    Some(<<"c", "o", "n", "n", "e", "c", "t", " ", "E", "C", "O", "N", "N", "R", "E", "F", "U", "S", "E", "D">>)
\* "read ECONNRESET"
MsgEconnreset ==
    Some(<<"r", "e", "a", "d", " ", "E", "C", "O", "N", "N", "R", "E", "S", "E", "T">>)
\* "Unknown error" (main.js:151)
MsgUnknownError ==
    Some(<<"U", "n", "k", "n", "o", "w", "n", " ", "e", "r", "r", "o", "r">>)
\* the empty string
MsgEmpty == Some(<<>>)

\* JavaScript truthiness of an optional number / optional string
TruthyStatus(httpStatus) == httpStatus.present /\ httpStatus.v # 0
TruthyMessage(errorMessage) == errorMessage.present /\ Len(errorMessage.v) > 0

(***************************************************************************)
(* consts.js STATUS_CODES                                                  *)
(***************************************************************************)
STATUS_OK == 200
STATUS_REDIRECTION == 300
STATUS_NOT_MODIFIED == 304

(***************************************************************************)
(* tools.js: link classification                                           *)
(***************************************************************************)
\* getStatus with the 4xx range test placed before the specific codes
getStatusRangeFirst(httpStatus, errorMessage) ==
    IF TruthyMessage(errorMessage) THEN "Error"
    ELSE IF ~TruthyStatus(httpStatus) THEN "Unknown"
    ELSE IF httpStatus.v >= 200 /\ httpStatus.v < 300 THEN "OK"
    ELSE IF httpStatus.v >= 300 /\ httpStatus.v < 400 THEN "Redirect"
    ELSE IF httpStatus.v >= 400 /\ httpStatus.v < 500 THEN "Client Error"
    ELSE IF httpStatus.v >= 500 THEN "Server Error"
    ELSE "Unknown"

getStatus(httpStatus, errorMessage) ==
    IF TruthyMessage(errorMessage) THEN
        IF includes(toLowerCase(errorMessage.v), StrTimeout) THEN "Timeout"
        ELSE IF includes(errorMessage.v, StrENOTFOUND)
                \/ includes(errorMessage.v, StrECONNREFUSED) THEN "Not Found"
        ELSE IF includes(errorMessage.v, StrECONNRESET) THEN "Connection Reset"
        ELSE "Error"
    ELSE IF ~TruthyStatus(httpStatus) THEN "Unknown"
    ELSE IF httpStatus.v >= 200 /\ httpStatus.v < 300 THEN "OK"
    ELSE IF httpStatus.v >= 300 /\ httpStatus.v < 400 THEN "Redirect"
    ELSE IF httpStatus.v = 404 THEN "Not Found"
    ELSE IF httpStatus.v = 403 THEN "Forbidden"
    ELSE IF httpStatus.v = 401 THEN "Unauthorized"
    ELSE IF httpStatus.v >= 400 /\ httpStatus.v < 500 THEN "Client Error"
    ELSE IF httpStatus.v >= 500 THEN "Server Error"
    ELSE "Unknown"

getIssueType(httpStatus, errorMessage) ==
    IF TruthyMessage(errorMessage) THEN
        IF includes(toLowerCase(errorMessage.v), StrTimeout) THEN "timeout"
        ELSE IF includes(errorMessage.v, StrENOTFOUND) THEN "dns_error"
        ELSE IF includes(errorMessage.v, StrECONNREFUSED) THEN "connection_refused"
        ELSE IF includes(errorMessage.v, StrECONNRESET) THEN "connection_reset"
        ELSE "network_error"
    ELSE IF ~TruthyStatus(httpStatus) THEN "no_response"
    ELSE IF httpStatus.v >= 200 /\ httpStatus.v < 300 THEN "none"
    ELSE IF httpStatus.v = 404 THEN "404_not_found"
    ELSE IF httpStatus.v = 403 THEN "403_forbidden"
    ELSE IF httpStatus.v = 401 THEN "401_unauthorized"
    ELSE IF httpStatus.v = 500 THEN "500_internal_error"
    ELSE IF httpStatus.v = 502 THEN "502_bad_gateway"
    ELSE IF httpStatus.v = 503 THEN "503_service_unavailable"
    ELSE IF httpStatus.v >= 300 /\ httpStatus.v < 400 THEN "redirect"
    ELSE IF httpStatus.v >= 400 /\ httpStatus.v < 500 THEN "4xx_client_error"
    ELSE IF httpStatus.v >= 500 THEN "5xx_server_error"
    ELSE "unknown"

\* getSeverity without the special case for redirects
getSeverityNoRedirect(isBroken, issueType) ==
    IF ~isBroken THEN "none"
    ELSE IF issueType \in {"404_not_found", "500_internal_error", "timeout", "dns_error"}
        THEN "high"
    ELSE "medium"

\* getSeverity without the final return for the issue types not listed
getSeverityListedOnly(isBroken, issueType) ==
    IF ~isBroken THEN "none"
    ELSE IF issueType \in {"404_not_found", "500_internal_error", "timeout", "dns_error"}
        THEN "high"
    ELSE IF issueType \in {"403_forbidden", "502_bad_gateway", "503_service_unavailable"}
        THEN "medium"
    ELSE IF issueType = "redirect" THEN "low"
    ELSE "none"

getSeverity(isBroken, issueType) ==
    IF ~isBroken THEN "none"
    ELSE IF issueType \in {"404_not_found", "500_internal_error", "timeout", "dns_error"}
        THEN "high"
    ELSE IF issueType \in {"403_forbidden", "502_bad_gateway", "503_service_unavailable"}
        THEN "medium"
    ELSE IF issueType = "redirect" THEN "low"
    ELSE "medium"

\* isErrorHttpStatus without the exception for 304 Not Modified
isErrorHttpStatusNo304(httpStatus) ==
    \/ ~TruthyStatus(httpStatus)
    \/ httpStatus.v < STATUS_OK
    \/ httpStatus.v >= STATUS_REDIRECTION

isErrorHttpStatus(httpStatus) ==
    LET isRedirection == /\ httpStatus.present
                         /\ httpStatus.v >= STATUS_REDIRECTION
                         /\ httpStatus.v # STATUS_NOT_MODIFIED
    IN  \/ ~TruthyStatus(httpStatus)
        \/ httpStatus.v < STATUS_OK
        \/ isRedirection

\* isLinkBroken that does not look at the crawled flag
isLinkBrokenIgnoringCrawled(link) ==
    TruthyMessage(link.errorMessage) \/ isErrorHttpStatus(link.httpStatus)

isLinkBroken(link) ==
    link.crawled /\ (TruthyMessage(link.errorMessage) \/ isErrorHttpStatus(link.httpStatus))

\* The status part of the flat row that getResults pushes for a link
linkRow(link) ==
    LET isBroken == isLinkBroken(link)
        issueType == getIssueType(link.httpStatus, link.errorMessage)
        severity == getSeverity(isBroken, issueType)
    IN  [classified |-> TRUE,
         crawled |-> link.crawled,
         httpStatus |-> link.httpStatus,
         errorMessage |-> link.errorMessage,
         status |-> getStatus(link.httpStatus, link.errorMessage),
         isBroken |-> isBroken,
         severity |-> severity,
         issueType |-> issueType]

\* a link whose row has not been computed yet
unclassified(link) ==
    [classified |-> FALSE,
     crawled |-> link.crawled,
     httpStatus |-> link.httpStatus,
     errorMessage |-> link.errorMessage,
     status |-> "",
     isBroken |-> FALSE,
     severity |-> "",
     issueType |-> ""]

(***************************************************************************)
(* The crawled web.  A canonical URL is named by a letter:                 *)
(*   A  https://example.com            home page                           *)
(*   B  https://example.com/b          article                             *)
(*   C  https://example.com/c          article whose fetch times out       *)
(*   F  https://example.com/f          article linked only from B          *)
(*   D  https://example.com/d          dead page, answers 404              *)
(*   E  https://other.org/gone         page of another site                *)
(*   R  https://example.com/r.pdf      resource on the base host           *)
(*   X  https://cdn.other.org/x.pdf    resource on another host            *)
(*   T  https://example.com/tag/news   tag archive                         *)
(*   P  https://example.com/tag/news/p page below the tag archive          *)
(*   S  https://example.com/page/2     paginated listing                   *)
(*   U  https://blog.example.com/u     page on a subdomain of the base host*)
(*   G  https://example.com/g          page on which the handler throws    *)
(* A URL string as it appears in a link list is the canonical URL plus the *)
(* text after '#' ("" when there is none).                                 *)
(***************************************************************************)
Urls == {"A", "B", "C", "F", "D", "E", "R", "X", "T", "P", "S", "U", "G", "H", "K"}

Fragments == {"", "intro", "missing"}

UrlString(u, f) == [url |-> u, fragment |-> f]

\* hostname (without www.) equals the base hostname, page-handler.js:156-160
SameHostUrls == {"A", "B", "C", "F", "D", "R", "T", "P", "S", "G", "H", "K"}
\* hostname is a subdomain of the base hostname
SubdomainUrls == {"U"}
\* path extension in resourceExts, page-handler.js:168-173
ResourceUrls == {"R", "X"}
\* URLs matched by ARCHIVE_URL_PATTERNS, page-handler.js:28-35
ArchiveUrls == {"T"}
\* URLs matched by SKIP_URL_PATTERNS, page-handler.js:6-25
SkipUrls == {"S"}

Response(code) == [kind |-> "response", httpStatus |-> Some(code), errorMessage |-> NullMessage]
Failure(msg) == [kind |-> "failed", httpStatus |-> NullStatus, errorMessage |-> msg]
\* a response on which the try block of requestHandler throws Error(msg)
Throwing(code, msg) == [kind |-> "throws", httpStatus |-> Some(code), errorMessage |-> msg]

\* a response with a 5xx status, for which the crawler throws instead of calling
\* requestHandler; errorHandler sees response.statusCode
ServerError(code, msg) == [kind |-> "failed", httpStatus |-> Some(code), errorMessage |-> msg]

\* what the transport returns for the first attempt at each URL
FetchOutcome ==
    [u \in Urls |->
        CASE u = "C" -> Failure(MsgNavTimedOut)
          [] u = "D" -> Response(404)
          [] u = "E" -> Failure(MsgEnotfound)
          [] u = "X" -> Response(404)
          [] u = "G" -> Throwing(200,
                  Some(<<"$", " ", "i", "s", " ", "n", "o", "t", " ", "a", " ", "f", "u", "n", "c", "t", "i", "o", "n">>))
          [] u = "H" -> ServerError(503,
                  Some(<<"5", "0", "3", " ", "-", " ", "I", "n", "t", "e", "r", "n", "a", "l", " ", "S", "e", "r", "v", "e", "r", " ", "E", "r", "r", "o", "r">>))
          [] u = "K" -> Failure(MsgEconnreset)
          [] OTHER -> Response(200)]

\* what the transport returns for a retry: K answers the second time
RetryOutcome == [u \in Urls |-> IF u = "K" THEN Response(200) ELSE FetchOutcome[u]]

\* element ids and <a name> targets of each page
PageAnchors == [u \in Urls |-> IF u \in {"A", "B"} THEN {"intro"} ELSE {}]

\* a blog whose home page links to itself and to B with a #fragment and to the
\* blog subdomain, and whose tag archive T is linked from F, two links below B

\* crawl started at the home page: every page of the host is below the base URL
HomeSite ==
    [baseUrl |-> "A", withinBase |-> SameHostUrls, anchors |->
            [u \in Urls |->
            CASE u = "A" -> <<UrlString("B", ""), UrlString("B", "intro"), UrlString("C", ""),
            UrlString("E", ""), UrlString("R", ""), UrlString("X", ""),
            UrlString("T", ""), UrlString("S", "")>>
            [] u = "B" -> <<UrlString("C", ""), UrlString("F", "")>>
            [] u = "F" -> <<UrlString("D", ""), UrlString("A", "intro")>>
            [] u = "T" -> <<UrlString("P", "")>>
            [] OTHER -> <<>>]]

\* crawl started at the tag archive: only T and P are below the base URL
ArchiveSite ==
    [baseUrl |-> "T", withinBase |-> {"T", "P"}, anchors |->
            [u \in Urls |->
            CASE u = "T" -> <<UrlString("P", ""), UrlString("B", ""), UrlString("E", ""),
            UrlString("H", ""), UrlString("K", "")>>
            [] u = "P" -> <<UrlString("D", "")>>
            [] u = "B" -> <<UrlString("C", ""), UrlString("F", "")>>
            [] OTHER -> <<>>]]

BlogSite ==
    [baseUrl |-> "A", withinBase |-> SameHostUrls, anchors |->
            [u \in Urls |->
            CASE u = "A" -> <<UrlString("A", "intro"), UrlString("G", ""),
            UrlString("B", "missing"), UrlString("U", "")>>
            [] u = "B" -> <<UrlString("F", "")>>
            [] u = "F" -> <<UrlString("T", "")>>
            [] u = "T" -> <<UrlString("P", "")>>
            [] OTHER -> <<>>]]

Sites == {HomeSite, ArchiveSite, BlogSite}

(***************************************************************************)
(* Requests, page records and worker slots.                                *)
(***************************************************************************)
BASE_URL_LABEL == "BASE_URL"
NoLabel == "undefined"
NoUrl == "undefined"
NullDepth == [present |-> FALSE, v |-> 0]

NoRequest ==
    [url |-> NoUrl, uniqueKey |-> <<NoUrl>>, label |-> NoLabel, referrer |-> NoUrl, depth |-> NullDepth]

NoRecord ==
    [url |-> NoUrl, isBaseWebsite |-> FALSE, httpStatus |-> NullStatus,
     errorMessage |-> NullMessage, hasLinkUrls |-> FALSE, linkUrls |-> <<>>,
     anchors |-> {}, referrer |-> NoUrl, depth |-> NullDepth]

IdleWorker ==
    [pc |-> "idle", request |-> NoRequest, outcome |-> Response(0), record |-> NoRecord,
     toEnqueue |-> <<>>, linkUrls |-> <<>>, nextDepth |-> 0,
     retryCount |-> 0, maxRetries |-> NullDepth]

Workers == 1..MaxWorkers

\* tools.js getBaseUrlRequest plus main.js:54-60
getBaseUrlRequest(baseUrl) ==
    [url |-> baseUrl, uniqueKey |-> <<baseUrl>>, label |-> BASE_URL_LABEL,
     referrer |-> NoUrl, depth |-> Some(0)]

\* tools.js normalizeUrl: the canonical URL without the #fragment
normalizeUrl(urlString) == urlString.url

\* tools.js hasBaseDomain(baseUrl, url)
hasBaseDomain(s, url) == url \in s.withinBase

shouldSkipUrl(url) == url \in SkipUrls

isArchivePage(url) == url \in ArchiveUrls

\* page-handler.js getPageRecord
getPageRecord(request, outcome) ==
    [url |-> request.url,
     isBaseWebsite |-> (request.label = BASE_URL_LABEL),
     httpStatus |-> outcome.httpStatus,
     errorMessage |-> NullMessage,
     hasLinkUrls |-> FALSE,
     linkUrls |-> <<>>,
     anchors |-> PageAnchors[request.url],
     referrer |-> request.referrer,
     depth |-> IF request.depth.present THEN request.depth ELSE Some(0)]

\* the record pushed by failedRequestHandler, main.js:144-154
failedRecord(request, outcome) ==
    [url |-> request.url,
     isBaseWebsite |-> FALSE,
     httpStatus |-> NullStatus,
     errorMessage |-> IF TruthyMessage(outcome.errorMessage)
                      THEN outcome.errorMessage ELSE MsgUnknownError,
     hasLinkUrls |-> FALSE,
     linkUrls |-> <<>>,
     anchors |-> {},
     referrer |-> request.referrer,
     depth |-> NullDepth]

\* the a[href] loop with every link kept for checking, whatever checkExternalLinks
RECURSIVE scanAnchorsCheckAll(_, _, _, _, _, _)
scanAnchorsCheckAll(hrefs, i, seenUrls, allLinks, internalLinksToEnqueue, checkExternalLinks) ==
    IF i > Len(hrefs) THEN
        [linkUrls |-> allLinks, toEnqueue |-> internalLinksToEnqueue]
    ELSE
        LET normalizedUrl == hrefs[i].url
            enqueue == /\ normalizedUrl \in SameHostUrls \ ResourceUrls
                       /\ ~isArchivePage(normalizedUrl)
        IN  IF normalizedUrl \in seenUrls \/ shouldSkipUrl(normalizedUrl) THEN
                scanAnchorsCheckAll(hrefs, i + 1, seenUrls \cup {normalizedUrl}, allLinks,
                                    internalLinksToEnqueue, checkExternalLinks)
            ELSE
                scanAnchorsCheckAll(hrefs, i + 1, seenUrls \cup {normalizedUrl},
                                    Append(allLinks, UrlString(normalizedUrl, "")),
                                    IF enqueue THEN Append(internalLinksToEnqueue, normalizedUrl)
                                    ELSE internalLinksToEnqueue,
                                    checkExternalLinks)

\* the a[href] loop without the seenUrls test of page-handler.js:136-139
RECURSIVE scanAnchorsUnseen(_, _, _, _, _, _)
scanAnchorsUnseen(hrefs, i, seenUrls, allLinks, internalLinksToEnqueue, checkExternalLinks) ==
    IF i > Len(hrefs) THEN
        [linkUrls |-> allLinks, toEnqueue |-> internalLinksToEnqueue]
    ELSE
        LET normalizedUrl == hrefs[i].url
            isInternal == normalizedUrl \in SameHostUrls
            enqueue == /\ isInternal
                       /\ normalizedUrl \notin ResourceUrls
                       /\ ~isArchivePage(normalizedUrl)
            check == isInternal \/ checkExternalLinks
        IN  IF shouldSkipUrl(normalizedUrl) THEN
                scanAnchorsUnseen(hrefs, i + 1, seenUrls, allLinks, internalLinksToEnqueue,
                                  checkExternalLinks)
            ELSE
                scanAnchorsUnseen(hrefs, i + 1, seenUrls,
                                  IF check THEN Append(allLinks, UrlString(normalizedUrl, ""))
                                  ELSE allLinks,
                                  IF enqueue THEN Append(internalLinksToEnqueue, normalizedUrl)
                                  ELSE internalLinksToEnqueue,
                                  checkExternalLinks)

\* the a[href] loop with every link that is kept for checking also enqueued
RECURSIVE scanAnchorsEnqueueChecked(_, _, _, _, _, _)
scanAnchorsEnqueueChecked(hrefs, i, seenUrls, allLinks, internalLinksToEnqueue, checkExternalLinks) ==
    IF i > Len(hrefs) THEN
        [linkUrls |-> allLinks, toEnqueue |-> internalLinksToEnqueue]
    ELSE
        LET normalizedUrl == hrefs[i].url
            check == normalizedUrl \in SameHostUrls \/ checkExternalLinks
        IN  IF normalizedUrl \in seenUrls \/ shouldSkipUrl(normalizedUrl) \/ ~check THEN
                scanAnchorsEnqueueChecked(hrefs, i + 1, seenUrls \cup {normalizedUrl}, allLinks,
                                          internalLinksToEnqueue, checkExternalLinks)
            ELSE
                scanAnchorsEnqueueChecked(hrefs, i + 1, seenUrls \cup {normalizedUrl},
                                          Append(allLinks, UrlString(normalizedUrl, "")),
                                          Append(internalLinksToEnqueue, normalizedUrl),
                                          checkExternalLinks)

\* page-handler.js:111-197, the a[href] loop of getAndEnqueueLinkUrls
RECURSIVE scanAnchors(_, _, _, _, _, _)
scanAnchors(hrefs, i, seenUrls, allLinks, internalLinksToEnqueue, checkExternalLinks) ==
    IF i > Len(hrefs) THEN
        [linkUrls |-> allLinks, toEnqueue |-> internalLinksToEnqueue]
    ELSE
        LET normalizedUrl == hrefs[i].url
            isInternal == normalizedUrl \in SameHostUrls
            linkType == IF normalizedUrl \in ResourceUrls THEN "resource"
                        ELSE IF isInternal THEN "internal" ELSE "external"
            enqueue == isInternal /\ linkType # "resource" /\ ~isArchivePage(normalizedUrl)
            check == isInternal \/ checkExternalLinks
        IN  IF normalizedUrl \in seenUrls THEN
                scanAnchors(hrefs, i + 1, seenUrls, allLinks, internalLinksToEnqueue,
                            checkExternalLinks)
            ELSE IF shouldSkipUrl(normalizedUrl) THEN
                scanAnchors(hrefs, i + 1, seenUrls \cup {normalizedUrl}, allLinks,
                            internalLinksToEnqueue, checkExternalLinks)
            ELSE
                scanAnchors(hrefs, i + 1, seenUrls \cup {normalizedUrl},
                            IF check THEN Append(allLinks, UrlString(normalizedUrl, ""))
                            ELSE allLinks,
                            IF enqueue THEN Append(internalLinksToEnqueue, normalizedUrl)
                            ELSE internalLinksToEnqueue,
                            checkExternalLinks)

\* Map.prototype.set on a Map kept as the sequence of its entries in insertion order
mapSet(map, key, value) ==
    IF \E k \in 1..Len(map) : map[k].key = key
    THEN [k \in 1..Len(map) |-> IF map[k].key = key THEN [key |-> key, value |-> value]
                                ELSE map[k]]
    ELSE Append(map, [key |-> key, value |-> value])

NoText == "[No text]"

\* page-handler.js:147-183, the metadata the a[href] loop stores in linkData; the
\* text of an anchor is its trimmed text, or '[No text]' when that is empty
RECURSIVE scanLinkData(_, _, _, _)
scanLinkData(hrefs, i, seenUrls, linkData) ==
    IF i > Len(hrefs) THEN linkData
    ELSE
        LET normalizedUrl == hrefs[i].url
            isInternal == normalizedUrl \in SameHostUrls
            linkType == IF normalizedUrl \in ResourceUrls THEN "resource"
                        ELSE IF isInternal THEN "internal" ELSE "external"
            linkText == IF hrefs[i].text = "" THEN NoText ELSE hrefs[i].text
        IN  IF normalizedUrl \in seenUrls THEN
                scanLinkData(hrefs, i + 1, seenUrls, linkData)
            ELSE IF shouldSkipUrl(normalizedUrl) THEN
                scanLinkData(hrefs, i + 1, seenUrls \cup {normalizedUrl}, linkData)
            ELSE
                scanLinkData(hrefs, i + 1, seenUrls \cup {normalizedUrl},
                             mapSet(linkData, normalizedUrl,
                                    [linkText |-> linkText, linkType |-> linkType]))

\* page-handler.js:100
effectiveNextDepth(requestUrl, nextDepth, maxDepth) ==
    IF isArchivePage(requestUrl) THEN maxDepth ELSE nextDepth

(***************************************************************************)
(* tools.js: result resolution                                             *)
(***************************************************************************)
\* createUrlToRecordLookupTable: Map.set in store order, the last record wins
hasRecord(recs, url) == \E i \in 1..Len(recs) : recs[i].url = url

\* a lookup table in which the first record of a URL is kept
urlToFirstRecord(recs, url) ==
    recs[CHOOSE i \in 1..Len(recs) :
            /\ recs[i].url = url
            /\ \A j \in 1..(i - 1) : recs[j].url # url]

urlToRecord(recs, url) ==
    recs[CHOOSE i \in 1..Len(recs) :
            /\ recs[i].url = url
            /\ \A j \in (i + 1)..Len(recs) : recs[j].url # url]

\* createLink that takes every fragment of a crawled page to exist
createLinkAnyFragment(linkUrl, linkNurl, recs) ==
    [url |-> linkUrl,
     normalizedUrl |-> linkNurl,
     httpStatus |-> IF hasRecord(recs, linkNurl)
                    THEN urlToRecord(recs, linkNurl).httpStatus ELSE NullStatus,
     errorMessage |-> IF hasRecord(recs, linkNurl)
                      THEN urlToRecord(recs, linkNurl).errorMessage ELSE NullMessage,
     fragment |-> linkUrl.fragment,
     fragmentValid |-> hasRecord(recs, linkNurl),
     crawled |-> hasRecord(recs, linkNurl)]

createLink(linkUrl, linkNurl, recs) ==
    LET fragment == linkUrl.fragment
    IN  IF hasRecord(recs, linkNurl) THEN
            LET record == urlToRecord(recs, linkNurl)
            IN  [url |-> linkUrl,
                 normalizedUrl |-> linkNurl,
                 httpStatus |-> record.httpStatus,
                 errorMessage |-> record.errorMessage,
                 fragment |-> fragment,
                 fragmentValid |-> (fragment = "" \/ fragment \in record.anchors),
                 crawled |-> TRUE]
        ELSE
            [url |-> linkUrl,
             normalizedUrl |-> linkNurl,
             httpStatus |-> NullStatus,
             errorMessage |-> NullMessage,
             fragment |-> fragment,
             fragmentValid |-> FALSE,
             crawled |-> FALSE]

\* the links of one result page resolved against the records stored no later
\* than the page's own record
resultLinksAtCrawlTime(record, recs) ==
    LET upTo == CHOOSE k \in 1..Len(recs) :
                    recs[k] = record /\ \A j \in (k + 1)..Len(recs) : recs[j] # record
    IN  [i \in 1..Len(record.linkUrls) |->
            createLink(record.linkUrls[i], normalizeUrl(record.linkUrls[i]),
                       SubSeq(recs, 1, upTo))]

\* the links of one result page, tools.js:139-142
resultLinks(record, recs) ==
    [i \in 1..Len(record.linkUrls) |->
        createLink(record.linkUrls[i], normalizeUrl(record.linkUrls[i]), recs)]

\* the rows of one result page when the test of tools.js:147 is left out
resultRowsUnfiltered(url, links, i, saveOnlyBrokenLinks) ==
    [k \in 1..Len(links) |-> [sourceUrl |-> url, targetUrl |-> links[k].url] @@ linkRow(links[k])]

\* the rows pushed for one result page, tools.js:147-177
RECURSIVE resultRows(_, _, _, _)
resultRows(url, links, i, saveOnlyBrokenLinks) ==
    IF i > Len(links) THEN <<>>
    ELSE
        LET row == [sourceUrl |-> url, targetUrl |-> links[i].url] @@ linkRow(links[i])
            rest == resultRows(url, links, i + 1, saveOnlyBrokenLinks)
        IN  IF ~saveOnlyBrokenLinks \/ row.isBroken THEN <<row>> \o rest ELSE rest

\* the link targets one result page adds to pendingUrls, tools.js:179-181
RECURSIVE followLinks(_, _, _, _)
followLinks(record, links, i, doneUrls) ==
    IF i > Len(links) THEN <<>>
    ELSE
        LET rest == followLinks(record, links, i + 1, doneUrls)
        IN  IF record.isBaseWebsite /\ links[i].normalizedUrl \notin doneUrls
            THEN <<links[i].normalizedUrl>> \o rest
            ELSE rest

\* the while loop with the link targets put in front of pendingUrls
RECURSIVE getResultsLoopDepthFirst(_, _, _, _, _, _)
getResultsLoopDepthFirst(pendingUrls, doneUrls, out, rows, recs, saveOnlyBrokenLinks) ==
    IF pendingUrls = <<>> THEN [results |-> out, dataset |-> rows]
    ELSE
        LET url == Head(pendingUrls)
        IN  IF url \in doneUrls THEN
                getResultsLoopDepthFirst(Tail(pendingUrls), doneUrls, out, rows, recs,
                                         saveOnlyBrokenLinks)
            ELSE
                LET done == doneUrls \cup {url}
                    found == hasRecord(recs, url)
                    record == IF found THEN urlToRecord(recs, url) ELSE NoRecord
                    links == IF found /\ record.hasLinkUrls
                             THEN resultLinks(record, recs) ELSE <<>>
                    result == [url |-> url, links |-> links]
                IN  getResultsLoopDepthFirst(
                        followLinks(record, links, 1, done) \o Tail(pendingUrls),
                        done,
                        Append(out, result),
                        rows \o resultRows(url, links, 1, saveOnlyBrokenLinks),
                        recs, saveOnlyBrokenLinks)

\* the while loop of getResults, tools.js:118-184
RECURSIVE getResultsLoop(_, _, _, _, _, _)
getResultsLoop(pendingUrls, doneUrls, out, rows, recs, saveOnlyBrokenLinks) ==
    IF pendingUrls = <<>> THEN [results |-> out, dataset |-> rows]
    ELSE
        LET url == Head(pendingUrls)
        IN  IF url \in doneUrls THEN
                getResultsLoop(Tail(pendingUrls), doneUrls, out, rows, recs,
                               saveOnlyBrokenLinks)
            ELSE
                LET done == doneUrls \cup {url}
                    found == hasRecord(recs, url)
                    record == IF found THEN urlToRecord(recs, url) ELSE NoRecord
                    links == IF found /\ record.hasLinkUrls
                             THEN resultLinks(record, recs) ELSE <<>>
                    result == [url |-> url, links |-> links]
                IN  getResultsLoop(Tail(pendingUrls) \o followLinks(record, links, 1, done),
                                   done,
                                   Append(out, result),
                                   rows \o resultRows(url, links, 1, saveOnlyBrokenLinks),
                                   recs, saveOnlyBrokenLinks)

\* getResults walking from the first stored record instead of the base URL
getResultsFromFirstRecord(baseUrl, recs, saveOnlyBrokenLinks) ==
    getResultsLoop(<<IF recs = <<>> THEN baseUrl ELSE recs[1].url>>, {}, <<>>, <<>>, recs,
                   saveOnlyBrokenLinks)

\* getResults with the URL of every stored record put on pendingUrls
getResultsOfEveryRecord(baseUrl, recs, saveOnlyBrokenLinks) ==
    getResultsLoop(<<baseUrl>> \o [i \in 1..Len(recs) |-> recs[i].url], {}, <<>>, <<>>, recs,
                   saveOnlyBrokenLinks)

getResults(baseUrl, recs, saveOnlyBrokenLinks) ==
    getResultsLoop(<<baseUrl>>, {}, <<>>, <<>>, recs, saveOnlyBrokenLinks)

\* tools.js getBrokenLinks
RECURSIVE brokenOfPage(_, _)
brokenOfPage(result, i) ==
    IF i > Len(result.links) THEN <<>>
    ELSE IF isLinkBroken(result.links[i])
         THEN <<[link |-> result.links[i], baseUrl |-> result.url]>> \o brokenOfPage(result, i + 1)
         ELSE brokenOfPage(result, i + 1)

RECURSIVE getBrokenLinksFrom(_, _)
getBrokenLinksFrom(res, k) ==
    IF k > Len(res) THEN <<>>
    ELSE brokenOfPage(res[k], 1) \o getBrokenLinksFrom(res, k + 1)

getBrokenLinks(res) == getBrokenLinksFrom(res, 1)

(***************************************************************************)
(* The crawl: main.js                                                      *)
(***************************************************************************)
MaxConcurrencyCap == 50

Min(a, b) == IF a < b THEN a ELSE b

\* main.js:30, input.notificationEmails: undefined, no address or one address
NullEmails == [present |-> FALSE, v |-> <<>>]
NotificationEmails == {NullEmails, Some(<<>>), Some(<<"qa@example.com">>)}

\* the key-value store before saveResults has written OUTPUT
NoOutput ==
    [saved |-> FALSE, totalPagesChecked |-> 0, totalLinksChecked |-> 0,
     brokenLinksCount |-> 0, bySeverity |-> [high |-> 0, medium |-> 0, low |-> 0]]

Inputs ==
    [maxConcurrency : 1..MaxWorkers,
     maxPages : 1..MaxPagesBound,
     maxCrawlDepth : 0..MaxDepthBound,
     saveOnlyBrokenLinks : BOOLEAN,
     crawlSubdomains : BOOLEAN,
     checkExternalLinks : BOOLEAN,
     notificationEmails : NotificationEmails]

NoProbe == linkRow([crawled |-> FALSE, httpStatus |-> NullStatus, errorMessage |-> NullMessage])

ProbeLinks ==
    [crawled : BOOLEAN,
     httpStatus : {NullStatus} \cup {Some(n) : n \in 0..MaxStatus},
     errorMessage : {NullMessage, MsgEmpty, MsgNavTimedOut, MsgGotTimeout, MsgEnotfound,
                     MsgEconnrefused, MsgEconnreset, MsgUnknownError}]

\* main.js:25-70: input read, base request queued at depth 0, empty record store
Init ==
    /\ site \in Sites
    /\ input \in Inputs
    /\ requestQueue = <<getBaseUrlRequest(site.baseUrl)>>
    /\ queueHead = 0
    /\ handledRequestsCount = 0
    /\ workers = [w \in Workers |-> IdleWorker]
    /\ records = <<>>
    /\ phase = "crawl"
    /\ results = <<>>
    /\ brokenLinks = <<>>
    /\ dataset = <<>>
    /\ addLog = {}
    /\ output = NoOutput
    /\ notifications = <<>>
    /\ reclaimed = {}
    /\ probe = NoProbe

busyWorkers == {w \in Workers : workers[w].pc # "idle"}

\* main.js:84
maxRequestRetries == 1

\* The crawler starts the next request: main.js:77-89.  The pool runs at most
\* min(maxConcurrency, 50) requests at once and starts no request once
\* maxRequestsPerCrawl requests have finished.
Dispatch(w) ==
    /\ phase = "crawl"
    /\ workers[w].pc = "idle"
    /\ \A v \in Workers : v < w => workers[v].pc # "idle"   \* slots are interchangeable
    /\ Cardinality(busyWorkers) < Min(input.maxConcurrency, MaxConcurrencyCap)
    /\ handledRequestsCount < input.maxPages
    /\ queueHead < Len(requestQueue)
    /\ LET request == requestQueue[queueHead + 1]
           outcome == FetchOutcome[request.url]
       IN  workers' = [workers EXCEPT ![w] =
                [IdleWorker EXCEPT !.pc = IF outcome.kind = "failed" THEN "failed" ELSE "fetched",
                                   !.request = request,
                                   !.outcome = outcome]]
    /\ queueHead' = queueHead + 1
    /\ UNCHANGED <<site, input, requestQueue, handledRequestsCount, records, phase,
                   results, brokenLinks, dataset, addLog, probe, output, notifications, reclaimed>>

\* the depth test with the limit itself included
atOrBelowDepthLimit(currentDepth, maxCrawlDepth) == currentDepth <= maxCrawlDepth

\* main.js:105: links are extracted from a page below the depth limit
belowDepthLimit(currentDepth, maxCrawlDepth) == currentDepth < maxCrawlDepth

\* main.js:90-119 up to the first addRequest: the page record is built and, for a
\* page of the base site above the depth limit, its anchors are scanned.  A page
\* with nothing to enqueue is finished in the same step.
RequestHandler(w) ==
    /\ phase = "crawl"
    /\ workers[w].pc = "fetched"
    /\ workers[w].outcome.kind = "response"
    /\ LET request == workers[w].request
           currentDepth == IF request.depth.present THEN request.depth.v ELSE 0
           record == getPageRecord(request, workers[w].outcome)
           isWithinBaseDomain == hasBaseDomain(site, request.url)
           crawlCurrentSubdomain == input.crawlSubdomains /\ isWithinBaseDomain
           extract == /\ (record.isBaseWebsite \/ isWithinBaseDomain \/ crawlCurrentSubdomain)
                      /\ belowDepthLimit(currentDepth, input.maxCrawlDepth)
           scan == scanAnchors(site.anchors[request.url], 1, {}, <<>>, <<>>,
                               input.checkExternalLinks)
           depth == effectiveNextDepth(request.url, currentDepth + 1, input.maxCrawlDepth)
       IN  IF extract /\ depth <= input.maxCrawlDepth /\ scan.toEnqueue # <<>> THEN
                /\ workers' = [workers EXCEPT ![w] =
                        [@ EXCEPT !.pc = "enqueue", !.record = record,
                                  !.toEnqueue = scan.toEnqueue,
                                  !.linkUrls = scan.linkUrls,
                                  !.nextDepth = depth]]
                /\ UNCHANGED <<records, handledRequestsCount>>
           ELSE
                /\ records' = Append(records,
                        IF extract
                        THEN [record EXCEPT !.hasLinkUrls = TRUE, !.linkUrls = scan.linkUrls]
                        ELSE record)
                /\ handledRequestsCount' = handledRequestsCount + 1
                /\ workers' = [workers EXCEPT ![w] = IdleWorker]
    /\ UNCHANGED <<site, input, requestQueue, queueHead, phase, results, brokenLinks,
                   dataset, addLog, probe, output, notifications, reclaimed>>

\* RequestQueue.addRequest: a request whose uniqueKey is already known is not added
queueAddRequest(queue, request) ==
    IF \E i \in 1..Len(queue) : queue[i].uniqueKey = request.uniqueKey
    THEN queue
    ELSE Append(queue, request)

\* a request keyed by the link and the page it was found on
linkRequestKeyedByReferrer(url, referrer, depth) ==
    [url |-> url, uniqueKey |-> <<url, referrer>>, label |-> NoLabel, referrer |-> referrer,
     depth |-> Some(depth)]

\* a request stored one level deeper than it was discovered
linkRequestOneDeeper(url, referrer, depth) ==
    [url |-> url, uniqueKey |-> <<url>>, label |-> NoLabel, referrer |-> referrer,
     depth |-> Some(depth + 1)]

\* the request built at page-handler.js:206-213; the uniqueKey is the canonical URL
linkRequest(url, referrer, depth) ==
    [url |-> url, uniqueKey |-> <<url>>, label |-> NoLabel, referrer |-> referrer,
     depth |-> Some(depth)]

\* One iteration of the enqueue loop, page-handler.js:204-217
AddRequest(w) ==
    /\ phase = "crawl"
    /\ workers[w].pc = "enqueue"
    /\ workers[w].toEnqueue # <<>>
    /\ LET request == linkRequest(Head(workers[w].toEnqueue), workers[w].request.url,
                                  workers[w].nextDepth)
       IN  /\ requestQueue' = queueAddRequest(requestQueue, request)
           /\ addLog' = addLog \cup
                {[url |-> request.url, depth |-> workers[w].nextDepth,
                  referrer |-> request.referrer,
                  wasAlreadyPresent |-> (requestQueue' = requestQueue)]}
    /\ workers' = [workers EXCEPT ![w].toEnqueue = Tail(@)]
    /\ UNCHANGED <<site, input, queueHead, handledRequestsCount, records, phase, results,
                   brokenLinks, dataset, probe, output, notifications, reclaimed>>

\* main.js:113-119 after the enqueue loop: the link list is attached to the record
\* and the record is stored
StoreRecord(w) ==
    /\ phase = "crawl"
    /\ workers[w].pc = "enqueue"
    /\ workers[w].toEnqueue = <<>>
    /\ records' = Append(records,
            [workers[w].record EXCEPT !.hasLinkUrls = TRUE, !.linkUrls = workers[w].linkUrls])
    /\ handledRequestsCount' = handledRequestsCount + 1
    /\ workers' = [workers EXCEPT ![w] = IdleWorker]
    /\ UNCHANGED <<site, input, requestQueue, queueHead, phase, results, brokenLinks,
                   dataset, addLog, probe, output, notifications, reclaimed>>

\* the record pushed by the catch block of requestHandler, main.js:128-133
caughtRecordWithoutMessage(request, outcome) ==
    [NoRecord EXCEPT !.url = request.url, !.referrer = request.referrer]

caughtRecord(request, outcome) ==
    [NoRecord EXCEPT !.url = request.url,
                     !.errorMessage = outcome.errorMessage,
                     !.referrer = request.referrer]

\* main.js:125-134: the try block throws, the catch block stores an error record
\* and the handler returns normally
RequestHandlerCatch(w) ==
    /\ phase = "crawl"
    /\ workers[w].pc = "fetched"
    /\ workers[w].outcome.kind = "throws"
    /\ records' = Append(records, caughtRecord(workers[w].request, workers[w].outcome))
    /\ handledRequestsCount' = handledRequestsCount + 1
    /\ workers' = [workers EXCEPT ![w] = IdleWorker]
    /\ UNCHANGED <<site, input, requestQueue, queueHead, phase, results, brokenLinks,
                   dataset, addLog, probe, output, notifications, reclaimed>>

\* the crawler's test before a retry: request.maxRetries, when set, replaces the
\* crawler's maxRequestRetries
canRequestBeRetried(retryCount, maxRetries) ==
    retryCount < (IF maxRetries.present THEN maxRetries.v ELSE maxRequestRetries)

\* main.js:137-142: request.maxRetries after errorHandler
errorHandlerMaxRetries(httpStatus, maxRetries) ==
    IF TruthyStatus(httpStatus) /\ isErrorHttpStatus(httpStatus) THEN Some(0) ELSE maxRetries

\* A failed attempt that may be retried: the crawler calls errorHandler
\* (main.js:137-142), counts the retry and gives the request back to the queue.
\* The handler's assignment to request.maxRetries is read by the crawler's test
\* at the next failure of the request.
ErrorHandler(w) ==
    /\ phase = "crawl"
    /\ workers[w].pc = "failed"
    /\ canRequestBeRetried(workers[w].retryCount, workers[w].maxRetries)
    /\ reclaimed' = reclaimed \cup
            {[request |-> workers[w].request,
              retryCount |-> workers[w].retryCount + 1,
              maxRetries |-> errorHandlerMaxRetries(workers[w].outcome.httpStatus,
                                                    workers[w].maxRetries)]}
    /\ workers' = [workers EXCEPT ![w] = IdleWorker]
    /\ UNCHANGED <<site, input, requestQueue, queueHead, handledRequestsCount, records, phase,
                   results, brokenLinks, dataset, addLog, probe, output, notifications>>

\* The crawler starts a request that was given back to the queue, under the same
\* limits as a first attempt; the queue does not fix its place among the waiting
\* requests.
DispatchReclaimed(w) ==
    /\ phase = "crawl"
    /\ workers[w].pc = "idle"
    /\ \A v \in Workers : v < w => workers[v].pc # "idle"
    /\ Cardinality(busyWorkers) < Min(input.maxConcurrency, MaxConcurrencyCap)
    /\ handledRequestsCount < input.maxPages
    /\ \E r \in reclaimed :
            LET outcome == RetryOutcome[r.request.url]
            IN  /\ workers' = [workers EXCEPT ![w] =
                        [IdleWorker EXCEPT
                            !.pc = IF outcome.kind = "failed" THEN "failed" ELSE "fetched",
                            !.request = r.request,
                            !.outcome = outcome,
                            !.retryCount = r.retryCount,
                            !.maxRetries = r.maxRetries]]
                /\ reclaimed' = reclaimed \ {r}
    /\ UNCHANGED <<site, input, requestQueue, queueHead, handledRequestsCount, records, phase,
                   results, brokenLinks, dataset, addLog, probe, output, notifications>>

\* main.js:144-154, called when the failed request cannot be retried
FailedRequestHandler(w) ==
    /\ phase = "crawl"
    /\ workers[w].pc = "failed"
    /\ ~canRequestBeRetried(workers[w].retryCount, workers[w].maxRetries)
    /\ records' = Append(records, failedRecord(workers[w].request, workers[w].outcome))
    /\ handledRequestsCount' = handledRequestsCount + 1
    /\ workers' = [workers EXCEPT ![w] = IdleWorker]
    /\ UNCHANGED <<site, input, requestQueue, queueHead, phase, results, brokenLinks,
                   dataset, addLog, probe, output, notifications, reclaimed>>

\* crawler.run() returns when no request is running and either the queue is
\* drained or maxRequestsPerCrawl is reached
crawlFinished ==
    /\ busyWorkers = {}
    /\ \/ queueHead = Len(requestQueue) /\ reclaimed = {}
       \/ handledRequestsCount >= input.maxPages

\* main.js:158-166
Resolve ==
    /\ phase = "crawl"
    /\ crawlFinished
    /\ LET r == getResults(site.baseUrl, records, input.saveOnlyBrokenLinks)
       IN  /\ results' = r.results
           /\ dataset' = r.dataset
           /\ brokenLinks' = getBrokenLinks(r.results)
    /\ phase' = "resolved"
    /\ UNCHANGED <<site, input, requestQueue, queueHead, handledRequestsCount, workers,
                   records, addLog, probe, output, notifications, reclaimed>>

RECURSIVE totalLinksChecked(_, _)
totalLinksChecked(res, i) ==
    IF i > Len(res) THEN 0 ELSE Len(res[i].links) + totalLinksChecked(res, i + 1)

\* tools.js:250-252, the broken links of one severity
withSeverity(broken, severity) ==
    {i \in 1..Len(broken) :
        getSeverity(TRUE, getIssueType(broken[i].link.httpStatus,
                                       broken[i].link.errorMessage)) = severity}

\* tools.js saveResults: the summary written under OUTPUT, main.js:169
SaveResults ==
    /\ phase = "resolved"
    /\ output' = [saved |-> TRUE,
                  totalPagesChecked |-> Len(results),
                  totalLinksChecked |-> totalLinksChecked(results, 1),
                  brokenLinksCount |-> Len(brokenLinks),
                  bySeverity |->
                      [high |-> Cardinality(withSeverity(brokenLinks, "high")),
                       medium |-> Cardinality(withSeverity(brokenLinks, "medium")),
                       low |-> Cardinality(withSeverity(brokenLinks, "low"))]]
    /\ phase' = "saved"
    /\ UNCHANGED <<site, input, requestQueue, queueHead, handledRequestsCount, workers,
                   records, results, brokenLinks, dataset, addLog, probe, notifications, reclaimed>>

\* the condition of main.js:172 without the test of the broken-link list
shouldNotifyAnyResult(broken, notificationEmails) ==
    notificationEmails.present /\ Len(notificationEmails.v) > 0

\* main.js:172, brokenLinks.length > 0 && notificationEmails?.length > 0
shouldNotify(broken, notificationEmails) ==
    /\ Len(broken) > 0
    /\ notificationEmails.present
    /\ Len(notificationEmails.v) > 0

\* notification.js:8-12, its own copy of isErrorHttpStatus
notificationIsErrorHttpStatus(httpStatus) ==
    LET isRedirection == /\ httpStatus.present
                         /\ httpStatus.v >= STATUS_REDIRECTION
                         /\ httpStatus.v # STATUS_NOT_MODIFIED
    IN  \/ ~TruthyStatus(httpStatus)
        \/ httpStatus.v < STATUS_OK
        \/ isRedirection

\* the copy of isLinkBroken without the crawled flag
notificationIsLinkBrokenUncrawled(link) ==
    TruthyMessage(link.errorMessage) \/ notificationIsErrorHttpStatus(link.httpStatus)

\* notification.js:17-20, its own copy of isLinkBroken
notificationIsLinkBroken(link) ==
    /\ link.crawled
    /\ TruthyMessage(link.errorMessage) \/ notificationIsErrorHttpStatus(link.httpStatus)

\* notification.js:29-42, the table rows of one result page; the status cell is
\* 'N/A' (no value) for a falsy status
RECURSIVE emailRowsOfPage(_, _)
emailRowsOfPage(result, i) ==
    IF i > Len(result.links) THEN <<>>
    ELSE IF notificationIsLinkBroken(result.links[i])
         THEN <<[sourcePage |-> result.url,
                 brokenLink |-> result.links[i].url,
                 httpStatus |-> IF TruthyStatus(result.links[i].httpStatus)
                                THEN result.links[i].httpStatus ELSE NullStatus,
                 error |-> IF TruthyMessage(result.links[i].errorMessage)
                           THEN result.links[i].errorMessage ELSE
                                   Some(<<"B", "r", "o", "k", "e", "n", " ", "l", "i", "n", "k">>)]>>
              \o emailRowsOfPage(result, i + 1)
         ELSE emailRowsOfPage(result, i + 1)

RECURSIVE emailRows(_, _)
emailRows(res, k) ==
    IF k > Len(res) THEN <<>>
    ELSE emailRowsOfPage(res[k], 1) \o emailRows(res, k + 1)

\* notification.js generateEmailReport: brokenCount and the rows of the table
generateEmailReport(res) ==
    [brokenCount |-> Len(emailRows(res, 1)), rows |-> emailRows(res, 1)]

\* notification.js sendEmailNotification, called at main.js:172-174
SendEmailNotification ==
    /\ phase = "saved"
    /\ shouldNotify(brokenLinks, input.notificationEmails)
    /\ notifications' = Append(notifications,
            [to |-> input.notificationEmails.v, baseUrl |-> site.baseUrl,
             results |-> results, html |-> generateEmailReport(results)])
    /\ phase' = "done"
    /\ UNCHANGED <<site, input, requestQueue, queueHead, handledRequestsCount, workers,
                   records, results, brokenLinks, dataset, addLog, probe, output,
                   reclaimed>>

\* main.js:172-182 when no notification is due
Exit ==
    /\ phase = "saved"
    /\ ~shouldNotify(brokenLinks, input.notificationEmails)
    /\ phase' = "done"
    /\ UNCHANGED <<site, input, requestQueue, queueHead, handledRequestsCount, workers,
                   records, results, brokenLinks, dataset, addLog, probe, output,
                   notifications, reclaimed>>

Next ==
    \/ \E w \in Workers : Dispatch(w)
    \/ \E w \in Workers : RequestHandler(w)
    \/ \E w \in Workers : AddRequest(w)
    \/ \E w \in Workers : StoreRecord(w)
    \/ \E w \in Workers : RequestHandlerCatch(w)
    \/ \E w \in Workers : ErrorHandler(w)
    \/ \E w \in Workers : DispatchReclaimed(w)
    \/ \E w \in Workers : FailedRequestHandler(w)
    \/ Resolve
    \/ SaveResults
    \/ SendEmailNotification
    \/ Exit

Spec == Init /\ [][Next]_vars

(***************************************************************************)
(* Classification probe: the classification functions of tools.js applied  *)
(* to every combination of crawled flag, HTTP status and error message.    *)
(***************************************************************************)
InitClassify ==
    /\ site = HomeSite
    /\ input = [maxConcurrency |-> 1, maxPages |-> 1, maxCrawlDepth |-> 0,
                saveOnlyBrokenLinks |-> TRUE, crawlSubdomains |-> FALSE,
                checkExternalLinks |-> TRUE, notificationEmails |-> NullEmails]
    /\ requestQueue = <<getBaseUrlRequest(site.baseUrl)>>
    /\ queueHead = 0
    /\ handledRequestsCount = 0
    /\ workers = [w \in Workers |-> IdleWorker]
    /\ records = <<>>
    /\ phase = "crawl"
    /\ results = <<>>
    /\ brokenLinks = <<>>
    /\ dataset = <<>>
    /\ addLog = {}
    /\ output = NoOutput
    /\ notifications = <<>>
    /\ reclaimed = {}
    /\ probe \in {unclassified(link) : link \in ProbeLinks}

ClassifyLink ==
    /\ ~probe.classified
    /\ probe' = linkRow(probe)
    /\ UNCHANGED crawlVars

NextClassify == ClassifyLink

SpecClassify == InitClassify /\ [][NextClassify]_vars

(***************************************************************************)
(* Link-resolution probe: createLink of tools.js applied to a link string  *)
(* (with or without a #fragment) against a store of records.               *)
(***************************************************************************)
MaxStoreLen == 2

StoreUrls == {"A", "B"}

RecordStores == UNION {[1..n ->
        ({[NoRecord EXCEPT !.url = u, !.httpStatus = Some(code), !.anchors = a, !.depth = Some(0)] :
        u \in StoreUrls, code \in {200, 404}, a \in SUBSET (Fragments \ {""})}
        \cup {[NoRecord EXCEPT !.url = u, !.errorMessage = MsgGotTimeout] : u \in StoreUrls})] : n \in 0..MaxStoreLen}

InitCreateLink ==
    /\ site = HomeSite
    /\ input = [maxConcurrency |-> 1, maxPages |-> 1, maxCrawlDepth |-> 0,
                saveOnlyBrokenLinks |-> TRUE, crawlSubdomains |-> FALSE,
                checkExternalLinks |-> TRUE, notificationEmails |-> NullEmails]
    /\ requestQueue = <<getBaseUrlRequest(site.baseUrl)>>
    /\ queueHead = 0
    /\ handledRequestsCount = 0
    /\ workers = [w \in Workers |-> IdleWorker]
    /\ records \in RecordStores
    /\ phase = "crawl"
    /\ results = <<>>
    /\ brokenLinks = <<>>
    /\ dataset = <<>>
    /\ addLog = {}
    /\ output = NoOutput
    /\ notifications = <<>>
    /\ reclaimed = {}
    /\ probe \in {[resolved |-> FALSE, linkUrl |-> l, link |->
            [url |-> UrlString(NoUrl, ""), normalizedUrl |-> NoUrl, httpStatus |-> NullStatus,
            errorMessage |-> NullMessage, fragment |-> "", fragmentValid |-> FALSE,
            crawled |-> FALSE]] : l \in {UrlString(u, f) : u \in StoreUrls \cup {"D"}, f \in Fragments}}

CreateLink ==
    /\ ~probe.resolved
    /\ probe' = [resolved |-> TRUE,
                 linkUrl |-> probe.linkUrl,
                 link |-> createLink(probe.linkUrl, normalizeUrl(probe.linkUrl), records)]
    /\ UNCHANGED crawlVars

NextCreateLink == CreateLink

SpecCreateLink == InitCreateLink /\ [][NextCreateLink]_vars

(***************************************************************************)
(* Resolution probe: getResults and getBrokenLinks of tools.js applied to  *)
(* an arbitrary record store for the base URL A: self-links, link cycles,  *)
(* failed pages, several records of one URL, records of unlinked pages.    *)
(***************************************************************************)
MaxResolveLen == 2

ResolveUrls == {"A", "B", "C"}

\* link lists as getAndEnqueueLinkUrls returns them
ResolveLinkLists ==
    {<<>>,
     <<UrlString("A", "")>>,
     <<UrlString("D", "")>>,
     <<UrlString("B", ""), UrlString("C", "")>>,
     <<UrlString("C", ""), UrlString("A", ""), UrlString("B", "")>>}

ResolveStores == UNION {[1..n ->
        ({[NoRecord EXCEPT !.url = u, !.isBaseWebsite = b, !.httpStatus = Some(200),
        !.depth = Some(0)] : u \in ResolveUrls, b \in BOOLEAN}
        \cup {[NoRecord EXCEPT !.url = u, !.isBaseWebsite = b, !.httpStatus = Some(200),
        !.hasLinkUrls = TRUE, !.linkUrls = l, !.depth = Some(0)] :
        u \in ResolveUrls, b \in BOOLEAN, l \in ResolveLinkLists}
        \cup {[NoRecord EXCEPT !.url = u, !.httpStatus = Some(404), !.depth = Some(1)] :
        u \in ResolveUrls}
        \cup {[NoRecord EXCEPT !.url = u, !.errorMessage = MsgGotTimeout] : u \in ResolveUrls})] : n \in 0..MaxResolveLen}

InitGetResults ==
    /\ site = HomeSite
    /\ input \in [maxConcurrency : {1}, maxPages : {1}, maxCrawlDepth : {0},
                  saveOnlyBrokenLinks : BOOLEAN, crawlSubdomains : {FALSE},
                  checkExternalLinks : {TRUE}, notificationEmails : {NullEmails}]
    /\ requestQueue = <<getBaseUrlRequest(site.baseUrl)>>
    /\ queueHead = 1
    /\ handledRequestsCount = 1
    /\ workers = [w \in Workers |-> IdleWorker]
    /\ records \in ResolveStores
    /\ phase = "crawl"
    /\ results = <<>>
    /\ brokenLinks = <<>>
    /\ dataset = <<>>
    /\ addLog = {}
    /\ output = NoOutput
    /\ notifications = <<>>
    /\ reclaimed = {}
    /\ probe = NoProbe

NextGetResults == Resolve

SpecGetResults == InitGetResults /\ [][NextGetResults]_vars

(***************************************************************************)
(* Page probe: the a[href] loop of getAndEnqueueLinkUrls applied to the     *)
(* anchors of one page, several of which address the same canonical URL.   *)
(***************************************************************************)
MaxAnchors == 3

\* a[href] elements of the page: internal page B (also as B#intro), internal
\* resource R, external page E, skip-pattern URL S
AnchorElements ==
    {[url |-> h.url, fragment |-> h.fragment, text |-> t] :
        h \in {UrlString("B", ""), UrlString("B", "intro"), UrlString("R", ""),
               UrlString("E", ""), UrlString("S", "")},
        t \in {"", "one", "two"}}

AnchorLists == UNION {[1..n -> AnchorElements] : n \in 0..MaxAnchors}

InitScan ==
    /\ site = HomeSite
    /\ input \in [maxConcurrency : {1}, maxPages : {1}, maxCrawlDepth : {1},
                  saveOnlyBrokenLinks : {FALSE}, crawlSubdomains : {FALSE},
                  checkExternalLinks : BOOLEAN, notificationEmails : {NullEmails}]
    /\ requestQueue = <<getBaseUrlRequest(site.baseUrl)>>
    /\ queueHead = 1
    /\ handledRequestsCount = 0
    /\ workers = [w \in Workers |-> IdleWorker]
    /\ records = <<>>
    /\ phase = "crawl"
    /\ results = <<>>
    /\ brokenLinks = <<>>
    /\ dataset = <<>>
    /\ addLog = {}
    /\ output = NoOutput
    /\ notifications = <<>>
    /\ reclaimed = {}
    /\ probe \in {[scanned |-> FALSE, hrefs |-> h, linkUrls |-> <<>>, linkData |-> <<>>,
                   toEnqueue |-> <<>>] : h \in AnchorLists}

\* getAndEnqueueLinkUrls on the page: allLinks, linkData and the URLs passed to
\* requestQueue.addRequest, one call per entry of internalLinksToEnqueue
ScanPage ==
    /\ ~probe.scanned
    /\ LET scan == scanAnchors(probe.hrefs, 1, {}, <<>>, <<>>, input.checkExternalLinks)
       IN  probe' = [scanned |-> TRUE,
                     hrefs |-> probe.hrefs,
                     linkUrls |-> scan.linkUrls,
                     linkData |-> scanLinkData(probe.hrefs, 1, {}, <<>>),
                     toEnqueue |-> scan.toEnqueue]
    /\ UNCHANGED crawlVars

NextScan == ScanPage

SpecScan == InitScan /\ [][NextScan]_vars

(***************************************************************************)
(* apify-utils.js: URL canonicalization.  A URL string is a sequence of    *)
(* characters; new URL() and URLSearchParams are modelled for strings made *)
(* of the characters of CodeUnits, without credentials and dot segments.   *)
(***************************************************************************)
\* the characters in ascending code unit order, the order Array.prototype.sort uses
CodeUnits ==
    <<" ", "#", "%", "&", "+", "-", ".", "/", "0", "1", "2", "3", "4", "5", "6", "7", "8", "9", ":", "=", "?", "@", "A", "B", "C", "D", "E", "F", "G", "H", "I", "J", "K", "L", "M", "N", "O", "P", "Q", "R", "S", "T", "U", "V", "W", "X", "Y", "Z", "_", "a", "b", "c", "d", "e", "f", "g", "h", "i", "j", "k", "l", "m", "n", "o", "p", "q", "r", "s", "t", "u", "v", "w", "x", "y", "z">>

codeUnit(c) == CHOOSE k \in 1..Len(CodeUnits) : CodeUnits[k] = c

NullUrl == [present |-> FALSE, v |-> <<>>]

\* String.prototype.indexOf, counted from 1; 0 when absent
indexOf(s, c) ==
    IF \E i \in 1..Len(s) : s[i] = c
    THEN CHOOSE i \in 1..Len(s) : s[i] = c /\ \A j \in 1..(i - 1) : s[j] # c
    ELSE 0

\* index of the first character of s that is in chars, Len(s) + 1 when none is
firstOf(s, chars) ==
    IF \E i \in 1..Len(s) : s[i] \in chars
    THEN CHOOSE i \in 1..Len(s) : s[i] \in chars /\ \A j \in 1..(i - 1) : s[j] \notin chars
    ELSE Len(s) + 1

substring(s, from) == SubSeq(s, from, Len(s))

\* String.prototype.split on one character
RECURSIVE split(_, _)
split(s, c) ==
    IF indexOf(s, c) = 0 THEN <<s>>
    ELSE <<SubSeq(s, 1, indexOf(s, c) - 1)>> \o split(substring(s, indexOf(s, c) + 1), c)

\* Array.prototype.join
RECURSIVE join(_, _)
join(strs, sep) ==
    IF strs = <<>> THEN <<>>
    ELSE IF Len(strs) = 1 THEN strs[1]
    ELSE strs[1] \o sep \o join(Tail(strs), sep)

\* String.prototype.trim
RECURSIVE trim(_)
trim(s) ==
    IF s = <<>> THEN s
    ELSE IF s[1] = " " THEN trim(Tail(s))
    ELSE IF s[Len(s)] = " " THEN trim(SubSeq(s, 1, Len(s) - 1))
    ELSE s

\* a sorts before b when sort() is called without a comparator
RECURSIVE sortsBefore(_, _)
sortsBefore(a, b) ==
    IF b = <<>> THEN FALSE
    ELSE IF a = <<>> THEN TRUE
    ELSE IF a[1] = b[1] THEN sortsBefore(Tail(a), Tail(b))
    ELSE codeUnit(a[1]) < codeUnit(b[1])

\* x put into the sorted list after every element that does not sort after it
RECURSIVE insertSorted(_, _)
insertSorted(sorted, x) ==
    IF sorted = <<>> THEN <<x>>
    ELSE IF sortsBefore(x, sorted[1]) THEN <<x>> \o sorted
    ELSE <<sorted[1]>> \o insertSorted(Tail(sorted), x)

\* Array.prototype.sort, apify-utils.js:50
RECURSIVE sort(_)
sort(strs) ==
    IF strs = <<>> THEN <<>>
    ELSE insertSorted(sort(SubSeq(strs, 1, Len(strs) - 1)), strs[Len(strs)])

Letters == {UpperChars[k] : k \in 1..Len(UpperChars)} \cup {LowerChars[k] : k \in 1..Len(LowerChars)}
Digits == {"0", "1", "2", "3", "4", "5", "6", "7", "8", "9"}

StrHttp == <<"h", "t", "t", "p">>
StrHttps == <<"h", "t", "t", "p", "s">>

FailedURL ==
    [ok |-> FALSE, protocol |-> <<>>, hostname |-> <<>>, pathname |-> <<>>,
     search |-> <<>>, hash |-> <<>>]

RECURSIVE stripLeadingSlashes(_)
stripLeadingSlashes(s) ==
    IF s # <<>> /\ s[1] = "/" THEN stripLeadingSlashes(Tail(s)) ELSE s

\* the URL parser writes a space of the query as %20
RECURSIVE encodeQuery(_)
encodeQuery(q) ==
    IF q = <<>> THEN <<>>
    ELSE (IF q[1] = " " THEN <<"%", "2", "0">> ELSE <<q[1]>>) \o encodeQuery(Tail(q))

\* new URL(s) without base, apify-utils.js:19
parseURL(s) ==
    LET colon == indexOf(s, ":")
        scheme == toLowerCase(SubSeq(s, 1, colon - 1))
        rest == stripLeadingSlashes(substring(s, colon + 1))
        authority == SubSeq(rest, 1, firstOf(rest, {"/", "?", "#"}) - 1)
        hostname == SubSeq(authority, 1, firstOf(authority, {":"}) - 1)
        port == substring(authority, firstOf(authority, {":"}) + 1)
        afterHost == substring(rest, Len(authority) + 1)
        path == SubSeq(afterHost, 1, firstOf(afterHost, {"?", "#"}) - 1)
        afterPath == substring(afterHost, Len(path) + 1)
        query == IF afterPath # <<>> /\ afterPath[1] = "?"
                 THEN SubSeq(afterPath, 2, firstOf(afterPath, {"#"}) - 1) ELSE <<>>
        fragment == substring(afterPath, firstOf(afterPath, {"#"}) + 1)
    IN  IF colon <= 1 \/ scheme[1] \notin Letters
           \/ \E i \in 1..Len(scheme) : scheme[i] \notin Letters \cup Digits \cup {"+", "-", "."}
        THEN FailedURL
        ELSE IF scheme \notin
                {StrHttp, StrHttps, <<"f", "t", "p">>, <<"w", "s">>, <<"w", "s", "s">>, <<"f", "i", "l", "e">>} THEN
            [ok |-> TRUE, protocol |-> scheme \o <<":">>, hostname |-> <<>>,
             pathname |-> substring(s, colon + 1), search |-> <<>>, hash |-> <<>>]
        ELSE IF hostname = <<>> \/ (\E i \in 1..Len(hostname) : hostname[i] \in {" ", "%", "@"})
                \/ (\E i \in 1..Len(port) : port[i] \notin Digits)
        THEN FailedURL
        ELSE
            [ok |-> TRUE,
             protocol |-> scheme \o <<":">>,
             hostname |-> toLowerCase(hostname),
             pathname |-> IF path = <<>> THEN <<"/">> ELSE path,
             search |-> IF query = <<>> THEN <<>> ELSE <<"?">> \o encodeQuery(query),
             hash |-> IF fragment = <<>> THEN <<>> ELSE <<"#">> \o fragment]

\* the escapes percent-decoding meets in the model: %20 %23 %25 %26 %2F %3D
PercentEscapes ==
    (<<"2", "0">> :> " ") @@ (<<"2", "3">> :> "#") @@ (<<"2", "5">> :> "%")
    @@ (<<"2", "6">> :> "&") @@ (<<"2", "F">> :> "/") @@ (<<"2", "f">> :> "/")
    @@ (<<"3", "D">> :> "=") @@ (<<"3", "d">> :> "=")

\* decoding of a name or value by URLSearchParams: + is a space, %XX is a byte
RECURSIVE percentDecode(_)
percentDecode(s) ==
    IF s = <<>> THEN <<>>
    ELSE IF s[1] = "+" THEN <<" ">> \o percentDecode(Tail(s))
    ELSE IF s[1] = "%" /\ Len(s) >= 3 /\ SubSeq(s, 2, 3) \in DOMAIN PercentEscapes
        THEN <<PercentEscapes[SubSeq(s, 2, 3)]>> \o percentDecode(substring(s, 4))
    ELSE <<s[1]>> \o percentDecode(Tail(s))

\* urlObj.searchParams: the [key, value] pairs of the query, in order
RECURSIVE decodePairs(_)
decodePairs(pieces) ==
    IF pieces = <<>> THEN <<>>
    ELSE
        LET piece == pieces[1]
            eq == firstOf(piece, {"="})
            pair == [key |-> percentDecode(SubSeq(piece, 1, eq - 1)),
                     value |-> percentDecode(substring(piece, eq + 1))]
        IN  (IF piece = <<>> THEN <<>> ELSE <<pair>>) \o decodePairs(Tail(pieces))

searchParams(search) ==
    IF search = <<>> THEN <<>> ELSE decodePairs(split(Tail(search), "&"))

\* apify-utils.js:38-42
ignoredParams ==
    {<<"u", "t", "m", "_", "s", "o", "u", "r", "c", "e">>,
     <<"u", "t", "m", "_", "m", "e", "d", "i", "u", "m">>,
     <<"u", "t", "m", "_", "c", "a", "m", "p", "a", "i", "g", "n">>,
     <<"u", "t", "m", "_", "t", "e", "r", "m">>,
     <<"u", "t", "m", "_", "c", "o", "n", "t", "e", "n", "t">>,
     <<"f", "b", "c", "l", "i", "d">>,
     <<"g", "c", "l", "i", "d">>,
     <<"m", "s", "c", "l", "k", "i", "d">>,
     <<"r", "e", "f">>,
     <<"s", "o", "u", "r", "c", "e">>,
     <<"m", "c", "_", "c", "i", "d">>,
     <<"m", "c", "_", "e", "i", "d">>,
     <<"_", "g", "a">>,
     <<"_", "g", "l">>,
     <<"s", "h", "a", "r", "e">>,
     <<"r", "e", "p", "l", "y", "t", "o", "c", "o", "m">>}

StrWwwDot == <<"w", "w", "w", ".">>

\* hostname.replace(/^www\./, ''), apify-utils.js:29
stripWww(hostname) ==
    IF Len(hostname) >= 4 /\ SubSeq(hostname, 1, 4) = StrWwwDot
    THEN substring(hostname, 5) ELSE hostname

\* path.replace(/\/+$/, ''), apify-utils.js:33
RECURSIVE stripTrailingSlashes(_)
stripTrailingSlashes(path) ==
    IF path # <<>> /\ path[Len(path)] = "/"
    THEN stripTrailingSlashes(SubSeq(path, 1, Len(path) - 1)) ELSE path

\* path.replace(/\/+/g, '/'), apify-utils.js:34
RECURSIVE collapseSlashes(_)
collapseSlashes(path) ==
    IF Len(path) < 2 THEN path
    ELSE IF path[1] = "/" /\ path[2] = "/" THEN collapseSlashes(Tail(path))
    ELSE <<path[1]>> \o collapseSlashes(Tail(path))

\* the key=value strings of the parameters that are kept, apify-utils.js:44-49
RECURSIVE keptParams(_)
keptParams(pairs) ==
    IF pairs = <<>> THEN <<>>
    ELSE (IF toLowerCase(pairs[1].key) \in ignoredParams THEN <<>>
          ELSE <<pairs[1].key \o <<"=">> \o pairs[1].value>>) \o keptParams(Tail(pairs))

\* normalizeUrl without the test of the protocol
utilsNormalizeUrlAnyScheme(url, keepFragment) ==
    IF url = <<>> \/ ~parseURL(trim(url)).ok THEN NullUrl
    ELSE
        LET urlObj == parseURL(trim(url))
            params == sort(keptParams(searchParams(urlObj.search)))
        IN  Some(toLowerCase(urlObj.protocol) \o <<"/", "/">>
                 \o stripWww(toLowerCase(urlObj.hostname))
                 \o collapseSlashes(stripTrailingSlashes(urlObj.pathname))
                 \o (IF params # <<>> THEN <<"?">> \o join(params, <<"&">>) ELSE <<>>)
                 \o (IF keepFragment THEN urlObj.hash ELSE <<>>))

\* apify-utils.js normalizeUrl(url, keepFragment)
utilsNormalizeUrl(url, keepFragment) ==
    IF url = <<>> THEN NullUrl
    ELSE
        LET urlObj == parseURL(trim(url))
            protocol == toLowerCase(SubSeq(urlObj.protocol, 1, Len(urlObj.protocol) - 1))
            hostname == stripWww(toLowerCase(urlObj.hostname))
            path == collapseSlashes(stripTrailingSlashes(urlObj.pathname))
            params == sort(keptParams(searchParams(urlObj.search)))
            queryString == IF params # <<>> THEN <<"?">> \o join(params, <<"&">>) ELSE <<>>
            fragmentString == IF keepFragment /\ urlObj.hash # <<>> THEN urlObj.hash ELSE <<>>
        IN  IF ~urlObj.ok THEN NullUrl
            ELSE IF protocol \notin {StrHttp, StrHttps} THEN NullUrl
            ELSE Some(protocol \o <<":", "/", "/">> \o hostname \o path \o queryString
                      \o fragmentString)

(***************************************************************************)
(* Canonicalization probe: normalizeUrl of apify-utils.js applied to a raw *)
(* URL and to the plain spelling of the same page, then to its own result. *)
(***************************************************************************)
MaxPasses == 2

\* String.prototype.toUpperCase
toUpperCase(s) ==
    [i \in 1..Len(s) |->
        IF \E k \in 1..Len(LowerChars) : LowerChars[k] = s[i]
        THEN UpperChars[CHOOSE k \in 1..Len(LowerChars) : LowerChars[k] = s[i]]
        ELSE s[i]]

Pages ==
    [host : {<<"x", ".", "c", "o", "m">>, <<"w", "w", "w", ".", "x", ".", "c", "o", "m">>},
     segments : {<<>>, <<<<"a">>>>, <<<<"a">>, <<"b">>>>},
     params : {<<>>, <<<<"b", "=", "2">>>>, <<<<"b", "=", "2">>, <<"a", "=", "1">>>>,
               <<<<"b", "=", "1", "%", "2", "6", "a", "=", "2">>, <<"c", "=", "3">>>>}]

\* a spelling of a page: letter case of scheme and host, a leading www., trailing
\* or doubled slashes, an added tracking parameter, parameter order, a fragment
Spellings ==
    [upperCase : BOOLEAN, www : BOOLEAN, slashes : {"plain", "trailing", "doubled"},
     tracking :
             {<<>>, <<"u", "t", "m", "_", "s", "o", "u", "r", "c", "e", "=", "a">>, <<"F", "B", "C", "L", "I", "D", "=", "1">>, <<"u", "t", "m", "_", "i", "d", "=", "7">>}, reversed : BOOLEAN, fragment : {<<>>, <<"#", "t", "o", "p">>}]

reverse(seq) == [i \in 1..Len(seq) |-> seq[Len(seq) + 1 - i]]

RECURSIVE renderPath(_, _)
renderPath(segments, slash) ==
    IF segments = <<>> THEN <<>>
    ELSE slash \o segments[1] \o renderPath(Tail(segments), slash)

\* the raw URL string of a page in a spelling
render(page, spelling) ==
    LET scheme == IF spelling.upperCase THEN toUpperCase(StrHttps) ELSE StrHttps
        named == (IF spelling.www THEN StrWwwDot ELSE <<>>) \o page.host
        host == IF spelling.upperCase THEN toUpperCase(named) ELSE named
        path == CASE spelling.slashes = "plain" -> renderPath(page.segments, <<"/">>)
                  [] spelling.slashes = "trailing" ->
                        renderPath(page.segments, <<"/">>) \o <<"/">>
                  [] spelling.slashes = "doubled" ->
                        renderPath(page.segments, <<"/", "/">>) \o <<"/", "/">>
        ordered == IF spelling.reversed THEN reverse(page.params) ELSE page.params
        params == (IF spelling.tracking = <<>> THEN <<>> ELSE <<spelling.tracking>>) \o ordered
        query == IF params = <<>> THEN <<>> ELSE <<"?">> \o join(params, <<"&">>)
    IN  scheme \o <<":", "/", "/">> \o host \o path \o query \o spelling.fragment

\* strings that are no http(s) URL: "", "example.com/a", "/a/b", "ftp://x.com/a",
\* "mailto:a@x.com", " ", "http://", "https://x.com:8o/a", "FTP://x.com"
InvalidRaws ==
    {<<>>,
     <<"e", "x", "a", "m", "p", "l", "e", ".", "c", "o", "m", "/", "a">>,
     <<"/", "a", "/", "b">>,
     <<"f", "t", "p", ":", "/", "/", "x", ".", "c", "o", "m", "/", "a">>,
     <<"m", "a", "i", "l", "t", "o", ":", "a", "@", "x", ".", "c", "o", "m">>,
     <<" ">>,
     <<"h", "t", "t", "p", ":", "/", "/">>,
     <<"h", "t", "t", "p", "s", ":", "/", "/", "x", ".", "c", "o", "m", ":", "8", "o", "/", "a">>,
     <<"F", "T", "P", ":", "/", "/", "x", ".", "c", "o", "m">>}

CanonProbes ==
    {[passes |-> 0, raw |-> render(page, spelling), plain |-> render(page,
            [upperCase |-> FALSE, www |-> FALSE, slashes |-> "plain", tracking |-> <<>>,
            reversed |-> FALSE, fragment |-> <<>>]),
      keepFragment |-> k, out |-> NullUrl, plainOut |-> NullUrl, again |-> NullUrl] :
        page \in Pages, spelling \in Spellings, k \in BOOLEAN}
    \cup {[passes |-> 0, raw |-> r, plain |-> r, keepFragment |-> FALSE,
           out |-> NullUrl, plainOut |-> NullUrl, again |-> NullUrl] : r \in InvalidRaws}

InitCanon ==
    /\ site = HomeSite
    /\ input = [maxConcurrency |-> 1, maxPages |-> 1, maxCrawlDepth |-> 0,
                saveOnlyBrokenLinks |-> TRUE, crawlSubdomains |-> FALSE,
                checkExternalLinks |-> TRUE, notificationEmails |-> NullEmails]
    /\ requestQueue = <<getBaseUrlRequest(site.baseUrl)>>
    /\ queueHead = 0
    /\ handledRequestsCount = 0
    /\ workers = [w \in Workers |-> IdleWorker]
    /\ records = <<>>
    /\ phase = "crawl"
    /\ results = <<>>
    /\ brokenLinks = <<>>
    /\ dataset = <<>>
    /\ addLog = {}
    /\ output = NoOutput
    /\ notifications = <<>>
    /\ reclaimed = {}
    /\ probe \in CanonProbes

\* normalizeUrl applied to the raw URL and to the plain spelling
Canonicalize ==
    /\ probe.passes = 0
    /\ probe' = [probe EXCEPT !.passes = 1,
                              !.out = utilsNormalizeUrl(probe.raw, probe.keepFragment),
                              !.plainOut = utilsNormalizeUrl(probe.plain, probe.keepFragment)]
    /\ UNCHANGED crawlVars

\* normalizeUrl applied to its own result
Recanonicalize ==
    /\ probe.passes >= 1
    /\ probe.passes < MaxPasses
    /\ probe.out.present
    /\ probe' = [probe EXCEPT !.passes = @ + 1,
                              !.again = utilsNormalizeUrl(
                                  IF probe.passes = 1 THEN probe.out.v ELSE probe.again.v,
                                  probe.keepFragment)]
    /\ UNCHANGED crawlVars

NextCanon == Canonicalize \/ Recanonicalize

SpecCanon == InitCanon /\ [][NextCanon]_vars

(***************************************************************************)
(* Start-up probe: main.js:37-60 applied to a raw input.baseUrl string.    *)
(***************************************************************************)
\* tools.js normalizeUrl on a URL string: the canonical form, else the string
\* up to its '#', else the string itself
toolsNormalizeUrl(url) ==
    LET nurl == utilsNormalizeUrl(url, FALSE)
        index == indexOf(url, "#")
    IN  IF nurl.present /\ nurl.v # <<>> THEN nurl.v
        ELSE IF index > 1 THEN SubSeq(url, 1, index - 1)
        ELSE url

BaseUrlInputs == {p.raw : p \in CanonProbes}

InitStart ==
    /\ site = HomeSite
    /\ input = [maxConcurrency |-> 1, maxPages |-> 1, maxCrawlDepth |-> 0,
                saveOnlyBrokenLinks |-> TRUE, crawlSubdomains |-> FALSE,
                checkExternalLinks |-> TRUE, notificationEmails |-> NullEmails]
    /\ requestQueue = <<>>
    /\ queueHead = 0
    /\ handledRequestsCount = 0
    /\ workers = [w \in Workers |-> IdleWorker]
    /\ records = <<>>
    /\ phase = "init"
    /\ results = <<>>
    /\ brokenLinks = <<>>
    /\ dataset = <<>>
    /\ addLog = {}
    /\ output = NoOutput
    /\ notifications = <<>>
    /\ reclaimed = {}
    /\ probe \in {[baseUrl |-> r] : r \in BaseUrlInputs}

\* main.js:39-41: throw when the normalized base URL is falsy
AbortInvalidBaseUrl ==
    /\ phase = "init"
    /\ toolsNormalizeUrl(probe.baseUrl) = <<>>
    /\ phase' = "aborted"
    /\ UNCHANGED <<site, input, requestQueue, queueHead, handledRequestsCount, workers,
                   records, results, brokenLinks, dataset, addLog, probe, output, notifications, reclaimed>>

\* main.js:53-60: the base request enters the queue
AddBaseRequest ==
    /\ phase = "init"
    /\ toolsNormalizeUrl(probe.baseUrl) # <<>>
    /\ requestQueue' = <<getBaseUrlRequest(toolsNormalizeUrl(probe.baseUrl))>>
    /\ phase' = "crawl"
    /\ UNCHANGED <<site, input, queueHead, handledRequestsCount, workers,
                   records, results, brokenLinks, dataset, addLog, probe, output, notifications, reclaimed>>

NextStart == AbortInvalidBaseUrl \/ AddBaseRequest

SpecStart == InitStart /\ [][NextStart]_vars

(***************************************************************************)
(* Properties                                                              *)
(***************************************************************************)
\* the store's record for url has a link list
extracted(recs, url) == hasRecord(recs, url) /\ urlToRecord(recs, url).hasLinkUrls

linkTargets(recs, url) ==
    IF extracted(recs, url)
    THEN {normalizeUrl(urlToRecord(recs, url).linkUrls[i]) :
            i \in 1..Len(urlToRecord(recs, url).linkUrls)}
    ELSE {}

\* pages reachable from the base URL through the link lists of extracted pages
RECURSIVE reachableFrom(_, _)
reachableFrom(reached, recs) ==
    LET more == reached \cup UNION {linkTargets(recs, u) : u \in reached}
    IN  IF more = reached THEN reached ELSE reachableFrom(more, recs)

\* C1: after the crawl every page that is reachable from the base URL through the
\* link lists of extracted pages and whose own links were extracted is a result
\* page carrying its resolved links, so the links found on pages at depth 1 or
\* deeper are all in the report.
C1_EveryReachablePageIsAResultPage ==
    phase = "done" =>
        \A u \in reachableFrom({site.baseUrl}, records) :
            extracted(records, u) =>
                \E i \in 1..Len(results) :
                    /\ results[i].url = u
                    /\ results[i].links = resultLinks(urlToRecord(records, u), records)

\* C2: when the crawl ends below the page budget, every URL of every checked-links
\* list has a page record, its link is resolved as crawled, and a dead external or
\* resource target is in the broken-link list.
C2_EveryCheckedLinkIsVerified ==
    (phase = "done" /\ handledRequestsCount < input.maxPages) =>
        /\ \A k \in 1..Len(records) :
                records[k].hasLinkUrls =>
                    \A i \in 1..Len(records[k].linkUrls) :
                        hasRecord(records, normalizeUrl(records[k].linkUrls[i]))
        /\ \A p \in 1..Len(results) : \A i \in 1..Len(results[p].links) :
                /\ results[p].links[i].crawled
                /\ (results[p].links[i].normalizedUrl \in {"E", "X"}) =>
                        \E b \in 1..Len(brokenLinks) :
                            brokenLinks[b].link = results[p].links[i]

queueEntries(url) == {i \in 1..Len(requestQueue) : requestQueue[i].url = url}

admissions(url) == {a \in addLog : a.url = url /\ ~a.wasAlreadyPresent}

\* C3: whichever worker discovers it first, a canonical URL has at most one queue
\* entry; that entry keeps the depth of the one call that admitted it and every
\* other addRequest call for the URL left the queue as it was.
C3_AdmittedOnceAtFirstDepth ==
    \A u \in Urls :
        /\ Cardinality(queueEntries(u)) <= 1
        /\ IF u = site.baseUrl
           THEN /\ admissions(u) = {}
                /\ requestQueue[1] = getBaseUrlRequest(u)
           ELSE /\ Cardinality(admissions(u)) = Cardinality(queueEntries(u))
                /\ \A a \in admissions(u) : \A i \in queueEntries(u) :
                        /\ requestQueue[i].depth = Some(a.depth)
                        /\ requestQueue[i].referrer = a.referrer

\* two pages at different depths tried to enqueue the same URL: one call admitted
\* it, the other found it present
C3_Witness ==
    \E a, b \in addLog :
        /\ a.url = b.url
        /\ a.depth # b.depth
        /\ ~a.wasAlreadyPresent
        /\ b.wasAlreadyPresent

\* C4: no queue entry and no page record has a depth above maxCrawlDepth.
C4_DepthCeiling ==
    /\ \A i \in 1..Len(requestQueue) :
            requestQueue[i].depth.present /\ requestQueue[i].depth.v <= input.maxCrawlDepth
    /\ \A k \in 1..Len(records) :
            records[k].depth.present => records[k].depth.v <= input.maxCrawlDepth

\* a page found on the archive start page was recorded at the depth ceiling, and
\* in another run a page was recorded at depth 1 with maxCrawlDepth = 1
C4_Witness ==
    \E k \in 1..Len(records) :
        /\ records[k].depth = Some(input.maxCrawlDepth)
        /\ input.maxCrawlDepth >= 1
        /\ records[k].referrer \in ArchiveUrls

\* C5: the record store never holds records of more than maxPages distinct URLs.
C5_PageBudgetIsExact ==
    Cardinality({records[k].url : k \in 1..Len(records)}) <= input.maxPages

probeAsResults == <<[url |-> "A", links |-> <<probe>>]>>

\* C6: a link that was not crawled is not broken, has severity 'none' and is not
\* returned by getBrokenLinks, whatever its status and error message.
C6_UncrawledIsNotBroken ==
    (probe.classified /\ ~probe.crawled) =>
        /\ ~probe.isBroken
        /\ probe.severity = "none"
        /\ getBrokenLinks(probeAsResults) = <<>>

C6_Witness ==
    /\ probe.classified
    /\ ~probe.crawled
    /\ probe.httpStatus = Some(404)
    /\ probe.errorMessage = MsgEnotfound
    /\ ~probe.isBroken

is2xx(httpStatus) == httpStatus.present /\ httpStatus.v >= 200 /\ httpStatus.v <= 299

\* C7: a crawled link is broken exactly when it has a non-empty error message or
\* its status is neither 2xx nor 304; no status (or 0) without a message is broken.
C7_BrokenIffErrorOrBadStatus ==
    (probe.classified /\ probe.crawled) =>
        (probe.isBroken <=>
            \/ probe.errorMessage \notin {NullMessage, MsgEmpty}
            \/ ~(is2xx(probe.httpStatus) \/ probe.httpStatus = Some(304)))

C7_Witness ==
    /\ probe.classified
    /\ probe.crawled
    /\ probe.httpStatus = Some(304)
    /\ probe.errorMessage = NullMessage
    /\ ~probe.isBroken

\* C8: without an error message the status text is decided by the HTTP code alone:
\* 404 is Not Found / 404_not_found / high / broken, 200 is OK and not broken, 2xx
\* is OK, 3xx other than 304 is Redirect, 403 Forbidden, 401 Unauthorized, other
\* 4xx Client Error, 5xx Server Error.
C8_ClassificationByStatus ==
    (probe.classified /\ probe.errorMessage = NullMessage /\ probe.httpStatus.present) =>
        LET code == probe.httpStatus.v
        IN  /\ (code = 404) =>
                    /\ probe.status = "Not Found"
                    /\ probe.issueType = "404_not_found"
                    /\ probe.crawled => (probe.isBroken /\ probe.severity = "high")
            /\ (code = 200) => (probe.status = "OK" /\ ~probe.isBroken)
            /\ (code >= 200 /\ code <= 299) => probe.status = "OK"
            /\ (code >= 300 /\ code <= 399 /\ code # 304) => probe.status = "Redirect"
            /\ (code = 403) => probe.status = "Forbidden"
            /\ (code = 401) => probe.status = "Unauthorized"
            /\ (code >= 400 /\ code <= 499 /\ code \notin {401, 403, 404}) =>
                    probe.status = "Client Error"
            /\ (code >= 500 /\ code <= 599) => probe.status = "Server Error"

C8_Witness ==
    /\ probe.classified
    /\ probe.crawled
    /\ probe.httpStatus = Some(404)
    /\ probe.errorMessage = NullMessage
    /\ probe.status = "Not Found"
    /\ probe.isBroken

\* C9: a crawled link whose record carries the message "Error: Navigation timed
\* out" and no status is classified Timeout / timeout / high / broken.
C9_NavigationTimeoutIsTimeout ==
    (probe.classified /\ probe.crawled /\ probe.httpStatus = NullStatus /\ probe.errorMessage = MsgNavTimedOut) =>
        /\ probe.status = "Timeout"
        /\ probe.issueType = "timeout"
        /\ probe.severity = "high"
        /\ probe.isBroken

C11_ServerErrorIsHigh ==
    (probe.classified /\ probe.isBroken /\ probe.errorMessage = NullMessage
        /\ probe.httpStatus.present /\ probe.httpStatus.v >= 500) =>
        /\ probe.status = "Server Error"
        /\ probe.severity = "high"

\* the record createUrlToRecordLookupTable keeps for url: the last one stored
lastStored(url) ==
    records[CHOOSE i \in 1..Len(records) :
                /\ records[i].url = url
                /\ \A j \in (i + 1)..Len(records) : records[j].url # url]

\* C12: a link to a crawled page with a non-empty fragment is fragment-valid
\* exactly when the fragment is among the ids and names observed on that page; a
\* link without fragment to a crawled page is always fragment-valid.
C12_FragmentValidIffObserved ==
    (probe.resolved /\ \E i \in 1..Len(records) : records[i].url = probe.linkUrl.url) =>
        /\ probe.link.crawled
        /\ probe.link.fragmentValid <=>
                \/ probe.linkUrl.fragment = ""
                \/ probe.linkUrl.fragment \in lastStored(probe.linkUrl.url).anchors

C12_Witness ==
    /\ probe.resolved
    /\ probe.link.crawled
    /\ probe.linkUrl.fragment = "missing"
    /\ "intro" \in lastStored(probe.linkUrl.url).anchors
    /\ ~probe.link.fragmentValid

\* C13: a link whose target has no record is not crawled, has no status and no
\* error, and is fragment-valid exactly when it has no fragment.
C13_AbsentTarget ==
    (probe.resolved /\ \A i \in 1..Len(records) : records[i].url # probe.linkUrl.url) =>
        /\ ~probe.link.crawled
        /\ probe.link.httpStatus = NullStatus
        /\ probe.link.errorMessage = NullMessage
        /\ probe.link.fragmentValid <=> (probe.linkUrl.fragment = "")

\* C14: a link whose href addresses a page with a #fragment yields a result link
\* that carries the fragment, and for a crawled target the link is fragment-valid
\* exactly when the target page has that id or name (the first href to a target
\* is the one recorded).
C14_FragmentCarriedThrough ==
    (phase = "done") =>
        \A i \in 1..Len(results) :
            LET page == results[i].url
                hrefs == site.anchors[page]
                links == results[i].links
            IN  extracted(records, page) =>
                    \A k \in 1..Len(hrefs) :
                        ( /\ hrefs[k].fragment # ""
                          /\ hrefs[k].url \in SameHostUrls \ SkipUrls
                          /\ \A h \in 1..(k - 1) : hrefs[h].url # hrefs[k].url ) =>
                            \E j \in 1..Len(links) :
                                /\ links[j].normalizedUrl = hrefs[k].url
                                /\ links[j].fragment = hrefs[k].fragment
                                /\ links[j].crawled =>
                                        (links[j].fragmentValid <=>
                                            hrefs[k].fragment \in PageAnchors[hrefs[k].url])

\* link targets of type external: another host, no resource extension
ExternalLinkUrls == Urls \ (SameHostUrls \cup ResourceUrls)

\* C15: with checkExternalLinks off, an external link found on a crawled page is
\* in no record's link list and has no link or row anywhere in the report.
C15_ExternalLinksSkipped ==
    (~input.checkExternalLinks) =>
        /\ \A k \in 1..Len(records) : \A j \in 1..Len(records[k].linkUrls) :
                records[k].linkUrls[j].url \notin ExternalLinkUrls
        /\ \A i \in 1..Len(results) : \A j \in 1..Len(results[i].links) :
                results[i].links[j].normalizedUrl \notin ExternalLinkUrls
        /\ \A i \in 1..Len(dataset) : dataset[i].targetUrl.url \notin ExternalLinkUrls

C15_Witness ==
    /\ ~input.checkExternalLinks
    /\ phase = "done"
    /\ site = HomeSite
    /\ extracted(records, "A")
    /\ \E i \in 1..Len(results) : results[i].url = "A" /\ Len(results[i].links) > 0
    /\ \E k \in 1..Len(site.anchors["A"]) : site.anchors["A"][k].url \in ExternalLinkUrls

\* C16: the link list of an extracted page holds every internal link and every
\* resource link found on the page (links matching a skip pattern aside),
\* whatever checkExternalLinks is.
C16_InternalAndResourceAlwaysChecked ==
    \A k \in 1..Len(records) :
        records[k].hasLinkUrls =>
            LET hrefs == site.anchors[records[k].url]
            IN  \A h \in 1..Len(hrefs) :
                    (hrefs[h].url \in (SameHostUrls \cup ResourceUrls) \ SkipUrls) =>
                        \E j \in 1..Len(records[k].linkUrls) :
                            records[k].linkUrls[j].url = hrefs[h].url

\* C17: with maxCrawlDepth 3, a page (P) reachable only through a tag archive (T)
\* that sits at crawl depth 3 has a record once the crawl has ended with page
\* budget to spare.
C17_PageBehindArchiveIsVisited ==
    ( /\ site = BlogSite
      /\ input.maxCrawlDepth = 3
      /\ phase = "done"
      /\ handledRequestsCount < input.maxPages ) =>
        hasRecord(records, "P")

\* C18: only links within the base domain or, with crawlSubdomains on, within a
\* subdomain of it enter the queue; once the crawl has ended with page budget to
\* spare, a subdomain link found on an extracted page has been enqueued and
\* crawled when crawlSubdomains is on, and has not been enqueued when it is off.
C18_SubdomainAdmission ==
    /\ \A q \in 1..Len(requestQueue) :
            requestQueue[q].url \in
                SameHostUrls \cup (IF input.crawlSubdomains THEN SubdomainUrls ELSE {})
    /\ ( /\ phase = "done"
         /\ handledRequestsCount < input.maxPages
         /\ \E k \in 1..Len(records) :
                /\ records[k].hasLinkUrls
                /\ \E h \in 1..Len(site.anchors[records[k].url]) :
                        site.anchors[records[k].url][h].url \in SubdomainUrls ) =>
            /\ (\E q \in 1..Len(requestQueue) : requestQueue[q].url \in SubdomainUrls)
                    <=> input.crawlSubdomains
            /\ input.crawlSubdomains => \E u \in SubdomainUrls : hasRecord(records, u)

\* C19: canonicalization is idempotent: canonicalizing the canonical form of a
\* raw URL gives the canonical form again.
C19_CanonIdempotent ==
    (probe.passes = 2) => probe.again = probe.out

\* C20: two raw URLs of one page that differ only in letter case of scheme and
\* host, a leading www., trailing or doubled slashes, an added tracking parameter
\* (utm_*, fbclid, ...), parameter order or (keepFragment off) the fragment have
\* the same canonical form.
C20_SpellingsCanonicalizeAlike ==
    (probe.passes >= 1 /\ ~probe.keepFragment) => probe.out = probe.plainOut

\* the text before the first ':' of the trimmed string is http or https in any case
hasHttpScheme(raw) ==
    /\ indexOf(trim(raw), ":") > 1
    /\ toLowerCase(SubSeq(trim(raw), 1, indexOf(trim(raw), ":") - 1)) \in {StrHttp, StrHttps}

\* C21: canonicalization gives the invalid outcome (null) when the input is
\* empty, is not parsable as a URL, or has a scheme other than http and https.
C21_InvalidInputIsNull ==
    ( /\ probe.passes >= 1
      /\ \/ probe.raw = <<>>
         \/ ~parseURL(trim(probe.raw)).ok
         \/ ~hasHttpScheme(probe.raw) ) =>
        probe.out = NullUrl

C21_Witness ==
    /\ probe.passes >= 1
    /\ probe.raw = <<"f", "t", "p", ":", "/", "/", "x", ".", "c", "o", "m", "/", "a">>
    /\ probe.out = NullUrl

\* C22: a base URL that cannot be canonicalized is fatal: the run aborts and the
\* request queue never receives an entry.
C22_InvalidBaseUrlIsFatal ==
    (phase # "init" /\ utilsNormalizeUrl(probe.baseUrl, FALSE) = NullUrl) =>
        /\ phase = "aborted"
        /\ requestQueue = <<>>

\* C23: an e-mail is sent only when the broken-link list and the address list
\* are both non-empty, only after the results have been resolved and saved, and
\* at most once in a run.
C23_NotifyOnlyWhenDue ==
    [][notifications' # notifications =>
            /\ notifications = <<>>
            /\ Len(notifications') = 1
            /\ Len(brokenLinks) > 0
            /\ input.notificationEmails.present
            /\ Len(input.notificationEmails.v) > 0
            /\ phase = "saved"
            /\ output.saved
            /\ results = getResults(site.baseUrl, records, input.saveOnlyBrokenLinks).results]_vars

C23_Witness ==
    /\ Len(notifications) = 1
    /\ phase = "done"
    /\ Len(brokenLinks) > 0

\* pages whose fetch fails on the first attempt and on the retry, or on which
\* the handler throws
FailingUrls ==
    {u \in Urls : FetchOutcome[u].kind # "response" /\ RetryOutcome[u].kind # "response"}

\* C24: a page failure (failed fetch, or an exception in the handler) does not
\* abort the crawl: the page gets a record with no status and a non-empty error
\* message, the crawl still works off every queue entry the page budget allows,
\* and every link of the report that targets the page is broken.
C24_PageFailureIsRecordedNotFatal ==
    /\ \A k \in 1..Len(records) :
            records[k].url \in FailingUrls =>
                /\ records[k].httpStatus = NullStatus
                /\ records[k].errorMessage.present
                /\ records[k].errorMessage.v # <<>>
    /\ (phase = "done" /\ handledRequestsCount < input.maxPages) =>
            \A q \in 1..Len(requestQueue) : hasRecord(records, requestQueue[q].url)
    /\ (phase = "done") =>
            \A i \in 1..Len(results) : \A j \in 1..Len(results[i].links) :
                LET link == results[i].links[j]
                IN  (link.normalizedUrl \in FailingUrls /\ hasRecord(records, link.normalizedUrl)) =>
                        /\ link.crawled
                        /\ \E b \in 1..Len(brokenLinks) :
                                brokenLinks[b].link = link /\ brokenLinks[b].baseUrl = results[i].url

\* the handler threw on G, the crawl went on to B, and the link A -> G is broken
C24_Witness ==
    /\ phase = "done"
    /\ \E k \in 1..Len(records) :
            /\ records[k].url = "G"
            /\ \E m \in (k + 1)..Len(records) : records[m].url = "B"
    /\ \E b \in 1..Len(brokenLinks) : brokenLinks[b].link.normalizedUrl = "G"

\* C25: getResults ends on every record store (self-links, link cycles, failed
\* pages, no record at all) with a report whose first result page is the base
\* URL; when the base page has no record or no links the report is that one page
\* without links and without broken links.
C25_ReportAlwaysExists ==
    (phase = "resolved") =>
        /\ Len(results) >= 1
        /\ results[1].url = site.baseUrl
        /\ (\A k \in 1..Len(records) :
                records[k].url = site.baseUrl => records[k].linkUrls = <<>>) =>
                /\ Len(results) = 1
                /\ results[1].links = <<>>
                /\ brokenLinks = <<>>

\* a self-link and a cycle A -> B -> A in the store
C25_Witness ==
    /\ phase = "resolved"
    /\ Len(results) = 3
    /\ \E k \in 1..Len(records) :
            /\ records[k].url = "A"
            /\ records[k].linkUrls = <<UrlString("C", ""), UrlString("A", ""), UrlString("B", "")>>
    /\ \E k \in 1..Len(records) :
            /\ records[k].url = "B"
            /\ records[k].isBaseWebsite
            /\ records[k].linkUrls = <<UrlString("A", "")>>

\* the result pages and links getResults returns for the other value of the flag
resultsWithFlag(flag) == getResults(site.baseUrl, records, flag).results

C28_ArchiveLinkIsAdmitted ==
    \A k \in 1..Len(records) :
        records[k].hasLinkUrls =>
            \A i \in 1..Len(records[k].linkUrls) :
                LET target == normalizeUrl(records[k].linkUrls[i])
                IN  (target \in SameHostUrls /\ isArchivePage(target)) =>
                        \E q \in 1..Len(requestQueue) : requestQueue[q].url = target

\* C29: every request of the queue other than the start request is for an
\* internal link that is no resource and matches no skip pattern; external,
\* resource and skip-pattern links found on a page are never enqueued.
C29_OnlyInternalPagesEnqueued ==
    \A q \in 1..Len(requestQueue) :
        requestQueue[q].label # BASE_URL_LABEL =>
            /\ requestQueue[q].url \in SameHostUrls
            /\ requestQueue[q].url \notin ResourceUrls
            /\ ~shouldSkipUrl(requestQueue[q].url)

\* the enqueue loop of a page with external, resource and skip-pattern links
\* has run to its end
C29_Witness ==
    /\ input.checkExternalLinks
    /\ Len(requestQueue) >= 3
    /\ \E k \in 1..Len(records) :
            /\ records[k].hasLinkUrls
            /\ \E h \in 1..Len(site.anchors[records[k].url]) :
                    site.anchors[records[k].url][h].url \notin SameHostUrls
            /\ \E h \in 1..Len(site.anchors[records[k].url]) :
                    site.anchors[records[k].url][h].url \in ResourceUrls
            /\ \E h \in 1..Len(site.anchors[records[k].url]) :
                    shouldSkipUrl(site.anchors[records[k].url][h].url)

\* the positions of the store that hold a record of url
storedAt(url) == {i \in 1..Len(records) : records[i].url = url}

\* C30: when the store holds several records of the link's target, the link
\* takes status, error and fragment validity all from the record stored last.
C30_LastRecordWins ==
    (probe.resolved /\ Cardinality(storedAt(probe.linkUrl.url)) >= 2) =>
        LET last == CHOOSE i \in storedAt(probe.linkUrl.url) :
                        \A j \in storedAt(probe.linkUrl.url) : j <= i
        IN  /\ probe.link.crawled
            /\ probe.link.httpStatus = records[last].httpStatus
            /\ probe.link.errorMessage = records[last].errorMessage
            /\ probe.link.fragmentValid <=>
                    \/ probe.linkUrl.fragment = ""
                    \/ probe.linkUrl.fragment \in records[last].anchors

\* an earlier 200 record with the anchor, then a 404 record without it
C30_Witness ==
    /\ probe.resolved
    /\ Len(records) = 2
    /\ records[1].url = probe.linkUrl.url
    /\ records[2].url = probe.linkUrl.url
    /\ records[1].httpStatus = Some(200)
    /\ records[2].httpStatus = Some(404)
    /\ probe.linkUrl.fragment = "intro"
    /\ "intro" \in records[1].anchors
    /\ "intro" \notin records[2].anchors
    /\ probe.link.httpStatus = Some(404)
    /\ ~probe.link.fragmentValid

\* the record store in another append order
permuted(f) == [i \in 1..Len(records) |-> records[f[i]]]

\* f keeps the records of one URL in their relative order
keepsOrderPerUrl(f) ==
    \A i, j \in 1..Len(records) :
        (i < j /\ records[f[i]].url = records[f[j]].url) => f[i] < f[j]

sameReport(recs) ==
    LET r == getResults(site.baseUrl, recs, input.saveOnlyBrokenLinks)
    IN  /\ results = r.results
        /\ brokenLinks = getBrokenLinks(r.results)

\* C31 as stated: getResults returns the same result pages, links and
\* broken-link list for every permutation of the record store.
C31_AnyAppendOrder ==
    (phase = "resolved") =>
        \A f \in Permutations(1..Len(records)) : sameReport(permuted(f))

\* C31: getResults returns the same result pages, links and broken-link list
\* for every permutation of the record store that keeps the records of one and
\* the same URL in their relative order.
C31_AppendOrderUpToDuplicates ==
    (phase = "resolved") =>
        \A f \in Permutations(1..Len(records)) :
            keepsOrderPerUrl(f) => sameReport(permuted(f))

\* a store of two different pages, walked from A to B, and its reversal
C31_Witness ==
    /\ phase = "resolved"
    /\ Len(records) = 2
    /\ records[1].url = "B"
    /\ records[2].url = "A"
    /\ records[2].hasLinkUrls
    /\ Len(results) >= 2
    /\ Len(brokenLinks) >= 1

\* C32: every result page has one link per entry of its record's link list, and
\* all links of one report with the same canonical target agree on crawled,
\* httpStatus, errorMessage and isBroken.
C32_EdgesToOneTargetAgree ==
    (phase = "resolved") =>
        /\ \A p \in 1..Len(results) :
                hasRecord(records, results[p].url) =>
                    Len(results[p].links) = Len(urlToRecord(records, results[p].url).linkUrls)
        /\ \A p, q \in 1..Len(results) :
                \A i \in 1..Len(results[p].links) : \A j \in 1..Len(results[q].links) :
                    LET l == results[p].links[i]
                        m == results[q].links[j]
                    IN  l.normalizedUrl = m.normalizedUrl =>
                            /\ l.crawled = m.crawled
                            /\ l.httpStatus = m.httpStatus
                            /\ l.errorMessage = m.errorMessage
                            /\ isLinkBroken(l) = isLinkBroken(m)

\* two result pages link to the same crawled target
C32_Witness ==
    /\ phase = "resolved"
    /\ \E p, q \in 1..Len(results) :
            /\ p # q
            /\ \E i \in 1..Len(results[p].links) : \E j \in 1..Len(results[q].links) :
                    /\ results[p].links[i].normalizedUrl = results[q].links[j].normalizedUrl
                    /\ results[p].links[i].crawled

\* the URLs the walk of getResults reaches within n steps: the base URL and the
\* targets listed by the deciding record of a reached URL that has the base label
RECURSIVE walked(_)
walked(n) ==
    IF n = 0 THEN {site.baseUrl}
    ELSE LET before == walked(n - 1)
         IN  before \cup
             UNION {{normalizeUrl(lastStored(u).linkUrls[i]) :
                        i \in 1..Len(lastStored(u).linkUrls)} :
                    u \in {v \in before : hasRecord(records, v) /\ lastStored(v).isBaseWebsite}}

\* C33: a record whose URL the walk from the base URL does not reach is no
\* result page and is the source of no dataset row.
C33_UnreachedRecordIsNoSource ==
    (phase = "resolved") =>
        \A k \in 1..Len(records) :
            records[k].url \notin walked(Cardinality(Urls)) =>
                /\ \A p \in 1..Len(results) : results[p].url # records[k].url
                /\ \A r \in 1..Len(dataset) : dataset[r].sourceUrl # records[k].url

\* the record of C has links of its own and gives the link A -> C its status,
\* but the walk does not reach C because the record of A lacks the base label
C33_Witness ==
    /\ phase = "resolved"
    /\ ~input.saveOnlyBrokenLinks
    /\ \E k \in 1..Len(records) : records[k].url = "C" /\ Len(records[k].linkUrls) > 0
    /\ "C" \notin walked(Cardinality(Urls))
    /\ \E i \in 1..Len(results[1].links) :
            /\ results[1].links[i].normalizedUrl = "C"
            /\ results[1].links[i].crawled

\* the first anchor of the page that addresses url
firstAnchor(url) ==
    probe.hrefs[CHOOSE i \in 1..Len(probe.hrefs) :
                    /\ probe.hrefs[i].url = url
                    /\ \A j \in 1..(i - 1) : probe.hrefs[j].url # url]

\* C34: the checked-links list of a page has no two entries with the same
\* canonical URL, the metadata kept for a URL is that of the first anchor
\* addressing it, and no URL is passed to addRequest twice for the page.
C34_OncePerPage ==
    probe.scanned =>
        /\ \A i, j \in 1..Len(probe.linkUrls) :
                probe.linkUrls[i].url = probe.linkUrls[j].url => i = j
        /\ \A i, j \in 1..Len(probe.toEnqueue) :
                probe.toEnqueue[i] = probe.toEnqueue[j] => i = j
        /\ \A i, j \in 1..Len(probe.linkData) :
                probe.linkData[i].key = probe.linkData[j].key => i = j
        /\ \A i \in 1..Len(probe.linkData) :
                LET text == firstAnchor(probe.linkData[i].key).text
                IN  probe.linkData[i].value.linkText = IF text = "" THEN NoText ELSE text
        /\ \A i \in 1..Len(probe.linkUrls) :
                \E k \in 1..Len(probe.linkData) : probe.linkData[k].key = probe.linkUrls[i].url

\* B is addressed by two anchors with different texts
C34_Witness ==
    /\ probe.scanned
    /\ Len(probe.hrefs) >= 2
    /\ probe.hrefs[1].url = "B"
    /\ probe.hrefs[1].text = "one"
    /\ probe.hrefs[2].url = "B"
    /\ probe.hrefs[2].fragment = "intro"
    /\ probe.hrefs[2].text = "two"
    /\ probe.linkData[1] = [key |-> "B", value |-> [linkText |-> "one", linkType |-> "internal"]]
    /\ probe.toEnqueue = <<"B">>

\* the number of records stored for url
recordsOf(url) == Cardinality({k \in 1..Len(records) : records[k].url = url})

\* url is being handled by a worker or waits for a retry
inProgress(url) ==
    \/ \E w \in Workers : workers[w].pc # "idle" /\ workers[w].request.url = url
    \/ \E r \in reclaimed : r.request.url = url

\* C35: a URL is in the queue at most once and has no record before it is
\* dequeued; a dequeued request never has two records, is either in progress or
\* has its record while the crawl runs, and has exactly one record once the
\* crawl has ended.
C35_OneRecordPerDequeuedRequest ==
    \A i \in 1..Len(requestQueue) :
        LET url == requestQueue[i].url
        IN  /\ \A j \in 1..Len(requestQueue) : requestQueue[j].url = url => j = i
            /\ recordsOf(url) <= 1
            /\ i > queueHead => recordsOf(url) = 0 /\ ~inProgress(url)
            /\ (i <= queueHead /\ phase = "crawl") => (recordsOf(url) = 1) # inProgress(url)
            /\ (i <= queueHead /\ phase # "crawl") => recordsOf(url) = 1

\* the requests a worker holds or that wait for a retry, with their retry count
attempts ==
    {[url |-> workers[w].request.url, retryCount |-> workers[w].retryCount] :
        w \in {v \in Workers : workers[v].pc # "idle"}}
    \cup {[url |-> r.request.url, retryCount |-> r.retryCount] : r \in reclaimed}

\* the first attempt at url failed with a response that has an error status
failedWithErrorStatus(url) ==
    /\ FetchOutcome[url].kind = "failed"
    /\ TruthyStatus(FetchOutcome[url].httpStatus)
    /\ isErrorHttpStatus(FetchOutcome[url].httpStatus)

\* C36: a request whose failed attempt came with an error status is never given
\* back to the queue or fetched again, and no request is retried more often
\* than maxRequestRetries.
C36_ErrorStatusIsNotRetried ==
    \A a \in attempts :
        /\ a.retryCount <= maxRequestRetries
        /\ failedWithErrorStatus(a.url) => a.retryCount = 0

\* the URLs a page of the site passes to addRequest when its links are extracted
enqueuedFrom(u) ==
    IF FetchOutcome[u].kind = "response" /\ (u = site.baseUrl \/ hasBaseDomain(site, u))
    THEN LET scan == scanAnchors(site.anchors[u], 1, {}, <<>>, <<>>, TRUE)
         IN  {scan.toEnqueue[i] : i \in 1..Len(scan.toEnqueue)}
    ELSE {}

\* the URLs within n links of the base URL
RECURSIVE withinLinks(_)
withinLinks(n) ==
    IF n = 0 THEN {site.baseUrl}
    ELSE withinLinks(n - 1) \cup UNION {enqueuedFrom(u) : u \in withinLinks(n - 1)}

\* breadth-first link distance of a URL from the base URL
linkDistance(url) ==
    CHOOSE n \in 0..Cardinality(Urls) :
        url \in withinLinks(n) /\ (n = 0 \/ url \notin withinLinks(n - 1))

\* C37: in a crawl started at a page that is no archive, the depth stored with
\* every request of the queue is the breadth-first link distance of its URL from
\* the base URL, under every interleaving of the workers.
C37_DepthIsLinkDistance ==
    site.baseUrl \notin ArchiveUrls =>
        \A q \in 1..Len(requestQueue) :
            requestQueue[q].depth = Some(linkDistance(requestQueue[q].url))

\* the number of steps in which the walk of getResults reaches url
walkDistance(url) ==
    CHOOSE n \in 0..Cardinality(Urls) :
        url \in walked(n) /\ (n = 0 \/ url \notin walked(n - 1))

\* C38: no URL is a result page twice, the result pages are the URLs the walk
\* reaches, and they are listed in breadth-first order: a page never precedes a
\* page that is fewer links away from the base URL.
C38_ResultPagesOnceInBreadthFirstOrder ==
    (phase = "resolved") =>
        /\ \A p, q \in 1..Len(results) : results[p].url = results[q].url => p = q
        /\ {results[p].url : p \in 1..Len(results)} = walked(Cardinality(Urls))
        /\ \A p, q \in 1..Len(results) :
                p < q => walkDistance(results[p].url) <= walkDistance(results[q].url)

\* C is pushed by A and, not yet done, again by B
C38_Witness ==
    /\ phase = "resolved"
    /\ Len(records) = 2
    /\ records[1].url = "A" /\ records[1].isBaseWebsite
    /\ records[1].linkUrls = <<UrlString("B", ""), UrlString("C", "")>>
    /\ records[2].url = "B" /\ records[2].isBaseWebsite
    /\ records[2].linkUrls = <<UrlString("C", ""), UrlString("A", ""), UrlString("B", "")>>
    /\ Len(results) = 3
    /\ results[3].url = "C"

C40_EmailListsTheBrokenLinks ==
    \A n \in 1..Len(notifications) :
        LET html == notifications[n].html
        IN  /\ Len(html.rows) = Len(brokenLinks)
            /\ \A r \in 1..Len(html.rows) :
                    /\ html.rows[r].sourcePage = brokenLinks[r].baseUrl
                    /\ html.rows[r].brokenLink = brokenLinks[r].link.url
            /\ html.brokenCount = output.brokenLinksCount

\* an e-mail was sent for results that hold broken links and links that were
\* never crawled
C40_Witness ==
    /\ Len(notifications) = 1
    /\ notifications[1].html.brokenCount >= 1
    /\ \E p \in 1..Len(results) : \E i \in 1..Len(results[p].links) :
            ~results[p].links[i].crawled

====
